---------------------------- MODULE Spec2Model ----------------------------
(***************************************************************************)
(* Model of the file organization engine of media-library-manager:         *)
(* filename pattern extraction, classification, name synthesis, target     *)
(* directory resolution, associated file discovery, move planning and      *)
(* execution, and the directory janitor (empty-directory removal and junk  *)
(* quarantine), over an explicit model of a POSIX file system.             *)
(*                                                                         *)
(* A string is a sequence of one-character strings; a path is the sequence *)
(* of its parts as pathlib's Path.parts gives them (an absolute path       *)
(* starts with the part "/"); << >> is the current directory.              *)
(***************************************************************************)
EXTENDS Integers, Sequences, FiniteSets, TLC

VARIABLES
    dirs,       \* the set of paths that are directories
    files,      \* path -> [id, size, entries]: the regular files and their content
    cfg,        \* the configuration the organizer reads (Config.get)
    srcdirs,    \* FileOrganizer._source_directories, {} while the attribute is unset
    plans,      \* the move plans plan_file_move has returned and the caller still holds
    last,       \* the last call made on the organizer: its arguments, result and the state before it
    calls,      \* number of calls made so far
    org,        \* the organize command: its position, options and loop state
    mounts,     \* the directories that are mount points: a move across one is a cross-device move
    hist,       \* the real (not dry-run) execute_move calls made so far
    loaded,     \* the plans load_organization_plan returned to the caller, in their order
    conc        \* two execute_move calls running at once: the position of each in its code

vars == <<dirs, files, cfg, srcdirs, plans, last, calls, org, mounts, hist, loaded, conc>>

----------------------------------------------------------------------------
(* Characters and strings                                                  *)

Digits == {"0", "1", "2", "3", "4", "5", "6", "7", "8", "9"}

UpperCase == <<"A", "B", "C", "D", "E", "F", "G", "H", "I", "J", "K", "L", "M",
               "N", "O", "P", "Q", "R", "S", "T", "U", "V", "W", "X", "Y", "Z">>

LowerCase == <<"a", "b", "c", "d", "e", "f", "g", "h", "i", "j", "k", "l", "m",
               "n", "o", "p", "q", "r", "s", "t", "u", "v", "w", "x", "y", "z">>

\* \d of the regular expressions
IsDigit(c) == c \in Digits

\* \s of the regular expressions, and the characters str.strip() removes
IsSpace(c) == c \in {" ", "\t", "\n", "\r"}

\* one character of str.lower()
LowerChar(c) ==
    IF \E i \in 1..26 : UpperCase[i] = c
    THEN LowerCase[CHOOSE i \in 1..26 : UpperCase[i] = c]
    ELSE c

\* str.lower()
str_lower(s) == [i \in 1..Len(s) |-> LowerChar(s[i])]

\* op applied to the value of v, which is computed once: a local variable of the code
Bind(v, op(_)) == CHOOSE r \in {op(x) : x \in {v}} : TRUE

SetMin(S) == CHOOSE x \in S : \A y \in S : x <= y

SetMax(S) == CHOOSE x \in S : \A y \in S : y <= x

\* s[a..b] as a string, empty when a > b
Slice(s, a, b) == IF a > b THEN << >> ELSE SubSeq(s, a, b)

\* str.startswith / str.endswith
startswith(s, t) == Len(t) <= Len(s) /\ Slice(s, 1, Len(t)) = t

endswith(s, t) == Len(t) <= Len(s) /\ Slice(s, Len(s) - Len(t) + 1, Len(s)) = t

\* t occurs in s starting at position p
OccursAt(s, t, p) == p >= 1 /\ p + Len(t) - 1 <= Len(s) /\ Slice(s, p, p + Len(t) - 1) = t

\* Python's  t in s
contains(s, t) == \E p \in 1..(Len(s) + 1) : OccursAt(s, t, p)

\* str.strip(chars): drop the leading and trailing characters that are in C
strip_chars(s, C) ==
    LET keep == {i \in 1..Len(s) : s[i] \notin C}
    IN  IF keep = {} THEN << >> ELSE Slice(s, SetMin(keep), SetMax(keep))

\* str.strip()
strip(s) == strip_chars(s, {" ", "\t", "\n", "\r"})

\* the last position q >= p - 1 such that s[p..q] are all in C (p - 1: no such character at p)
RunEnd(s, p, C) ==
    LET stop == {i \in p..Len(s) : s[i] \notin C}
    IN  IF stop = {} THEN Len(s) ELSE SetMin(stop) - 1

\* re.sub(C+, r, s) for a character class C: every maximal run becomes r
RECURSIVE sub_runs(_, _, _, _)
sub_runs(s, C, r, p) ==
    IF p > Len(s) THEN << >>
    ELSE IF s[p] \in C THEN r \o sub_runs(s, C, r, RunEnd(s, p, C) + 1)
    ELSE <<s[p]>> \o sub_runs(s, C, r, p + 1)

\* str.join over a sequence of strings
RECURSIVE join(_, _)
join(sep, parts) ==
    IF parts = << >> THEN << >>
    ELSE IF Len(parts) = 1 THEN parts[1]
    ELSE parts[1] \o sep \o join(sep, Tail(parts))

----------------------------------------------------------------------------
(* Paths (pathlib)                                                         *)

\* Path.name
PathName(p) == IF p = << >> THEN << >> ELSE p[Len(p)]

\* the path "/"
RootPath == << <<"/">> >>

\* Path.parent (the parent of a one-part path is itself for "/", "." otherwise)
PathParent(p) ==
    IF Len(p) <= 1 THEN (IF p = RootPath THEN p ELSE << >>) ELSE Slice(p, 1, Len(p) - 1)

\* Path / name
PathJoin(p, n) == IF n = << >> THEN p ELSE Append(p, n)

\* a is p or an ancestor of p (p.relative_to(a) does not raise): an absolute path is not
\* under the current directory << >>
IsUnder(p, a) ==
    /\ Len(a) <= Len(p)
    /\ Slice(p, 1, Len(a)) = a
    /\ (a = << >> => (p = << >> \/ p[1] # <<"/">>))

\* a in p.parents
IsProperAncestor(a, p) == Len(a) < Len(p) /\ IsUnder(p, a)

\* position of the dot that starts Path.suffix, 0 when the name has no suffix
SuffixDot(n) ==
    LET dots == {i \in 1..Len(n) : n[i] = "."}
    IN  IF dots = {} THEN 0
        ELSE IF SetMax(dots) > 1 /\ SetMax(dots) < Len(n) THEN SetMax(dots) ELSE 0

\* Path.suffix of a name
suffix(n) == IF SuffixDot(n) = 0 THEN << >> ELSE Slice(n, SuffixDot(n), Len(n))

\* Path.stem of a name
stem(n) == IF SuffixDot(n) = 0 THEN n ELSE Slice(n, 1, SuffixDot(n) - 1)

\* get_file_extension, on the name of the path
get_file_extension(n) == str_lower(suffix(n))

----------------------------------------------------------------------------
(* Name cleaning                                                           *)

InvalidChars == {"<", ">", ":", "\"", "/", "\\", "|", "?", "*"}

\* clean_filename: each invalid character becomes "_", then strip(' .')
clean_filename(s) ==
    strip_chars([i \in 1..Len(s) |-> IF s[i] \in InvalidChars THEN "_" ELSE s[i]], {" ", "."})

\* re.sub(r'^\[.*?\]', '', s): a leading bracketed group, up to its first "]"
StripLeadingBracket(s) ==
    LET close == {i \in 2..Len(s) : s[i] = "]" /\ \A j \in 2..(i - 1) : s[j] # "\n"}
    IN  IF s # << >> /\ s[1] = "[" /\ close # {}
        THEN Slice(s, SetMin(close) + 1, Len(s))
        ELSE s

\* re.sub(r'\{.*?\}', '', s): every braced group, leftmost and shortest first
RECURSIVE StripBraces(_, _)
StripBraces(s, p) ==
    IF p > Len(s) THEN << >>
    ELSE LET close == {i \in (p + 1)..Len(s) : s[i] = "}" /\ \A j \in (p + 1)..(i - 1) : s[j] # "\n"}
         IN  IF s[p] = "{" /\ close # {}
             THEN StripBraces(s, SetMin(close) + 1)
             ELSE <<s[p]>> \o StripBraces(s, p + 1)

\* re.sub(r'[\.\s]+$', '', s)
StripTrailingDotsSpaces(s) ==
    LET keep == {i \in 1..Len(s) : ~(s[i] = "." \/ IsSpace(s[i]))}
    IN  IF keep = {} THEN << >> ELSE Slice(s, 1, SetMax(keep))

\* FileOrganizer.sanitize_filename
sanitize_filename(filename) ==
    LET s1 == strip(filename)
        s2 == StripLeadingBracket(s1)
        s3 == StripBraces(s2, 1)
        s4 == clean_filename(s3)
        s5 == sub_runs(s4, {"_", ".", " ", "\t", "\n", "\r"}, <<" ">>, 1)
        s6 == StripTrailingDotsSpaces(s5)
    IN  strip(s6)

\* re.sub(r'\s+', '.', s)
SpacesToDots(s) == sub_runs(s, {" ", "\t", "\n", "\r"}, <<".">>, 1)

----------------------------------------------------------------------------
(* Pattern extraction                                                      *)

EmptyInfo == [title |-> << >>, year |-> << >>, season |-> << >>, episode |-> << >>]

AllDigits(s, a, b) == b <= Len(s) /\ \A i \in a..b : IsDigit(s[i])

\* S(\d+)E(\d+) at position p, case-insensitive: greedy digit runs
MatchSE(s, p) ==
    LET q == RunEnd(s, p + 1, Digits)
        r == RunEnd(s, q + 2, Digits)
    IN  /\ p <= Len(s) /\ LowerChar(s[p]) = "s"
        /\ q >= p + 1
        /\ q + 1 <= Len(s) /\ LowerChar(s[q + 1]) = "e"
        /\ r >= q + 2

SeasonAt(s, p) == Slice(s, p + 1, RunEnd(s, p + 1, Digits))

EpisodeAt(s, p) ==
    LET q == RunEnd(s, p + 1, Digits) IN Slice(s, q + 2, RunEnd(s, q + 2, Digits))

\* where the S of the token starts, for a title s[1..i], under
\* r'^(.+?)[\.\s]S(\d+)E(\d+)' (which = 1) and r'^(.+?)\s*-\s*S(\d+)E(\d+)' (which = 2); 0: no match at i
TvTokenAt(s, i, which) ==
    IF which = 1
    THEN IF i + 1 <= Len(s) /\ (s[i + 1] = "." \/ IsSpace(s[i + 1])) /\ MatchSE(s, i + 2)
         THEN i + 2 ELSE 0
    ELSE LET d == RunEnd(s, i + 1, {" ", "\t", "\n", "\r"}) + 1
             t == RunEnd(s, d + 1, {" ", "\t", "\n", "\r"}) + 1
         IN  IF d <= Len(s) /\ s[d] = "-" /\ MatchSE(s, t) THEN t ELSE 0

\* the title lengths i for which (.+?) can match: no newline in s[1..i]
TitleEnds(s) == {i \in 1..Len(s) : \A j \in 1..i : s[j] # "\n"}

\* re.sub(r'\s*-\s*$', '', title)
StripTrailingDash(t) ==
    LET e == SetMax({0} \cup {i \in 1..Len(t) : ~IsSpace(t[i])})
    IN  IF e >= 1 /\ t[e] = "-"
        THEN Slice(t, 1, SetMax({0} \cup {i \in 1..(e - 1) : ~IsSpace(t[i])}))
        ELSE t

\* r'^(.+?)\s*\((\d{4})\)' with title s[1..i]: position of the first year digit, 0: no match at i
ParenYearAt(s, i) ==
    LET o == RunEnd(s, i + 1, {" ", "\t", "\n", "\r"}) + 1
    IN  IF o <= Len(s) /\ s[o] = "(" /\ AllDigits(s, o + 1, o + 4)
           /\ o + 5 <= Len(s) /\ s[o + 5] = ")"
        THEN o + 1 ELSE 0

\* r'^(.+?)\.(\d{4})' with title s[1..i]
DotYearAt(s, i) ==
    IF i + 1 <= Len(s) /\ s[i + 1] = "." /\ AllDigits(s, i + 2, i + 5) THEN i + 2 ELSE 0

\* r'(?<!\d)(19[89]\d|20[0-2]\d|2030)(?!\d)' at position p
BareYearAt(s, p) ==
    /\ p + 3 <= Len(s)
    /\ \/ s[p] = "1" /\ s[p + 1] = "9" /\ s[p + 2] \in {"8", "9"} /\ IsDigit(s[p + 3])
       \/ s[p] = "2" /\ s[p + 1] = "0" /\ s[p + 2] \in {"0", "1", "2"} /\ IsDigit(s[p + 3])
       \/ Slice(s, p, p + 3) = <<"2", "0", "3", "0">>
    /\ (p > 1 => ~IsDigit(s[p - 1]))
    /\ (p + 4 <= Len(s) => ~IsDigit(s[p + 4]))

\* FileOrganizer.extract_pattern_info (title, year, season, episode)
extract_pattern_info(filename) ==
    LET s == filename
        tv1 == {i \in TitleEnds(s) : TvTokenAt(s, i, 1) # 0}
        tv2 == {i \in TitleEnds(s) : TvTokenAt(s, i, 2) # 0}
        m1 == {i \in TitleEnds(s) : ParenYearAt(s, i) # 0}
        m2 == {i \in TitleEnds(s) : DotYearAt(s, i) # 0}
        yr == {p \in 1..Len(s) : BareYearAt(s, p)}
        tv(i, which) ==
            [EmptyInfo EXCEPT !.title = StripTrailingDash(strip(Slice(s, 1, i))),
                              !.season = SeasonAt(s, TvTokenAt(s, i, which)),
                              !.episode = EpisodeAt(s, TvTokenAt(s, i, which))]
    IN  IF tv1 # {} THEN tv(SetMin(tv1), 1)
        ELSE IF tv2 # {} THEN tv(SetMin(tv2), 2)
        ELSE IF m1 # {}
        THEN [EmptyInfo EXCEPT !.title = strip(Slice(s, 1, SetMin(m1))),
                               !.year = Slice(s, ParenYearAt(s, SetMin(m1)), ParenYearAt(s, SetMin(m1)) + 3)]
        ELSE IF m2 # {}
        THEN [EmptyInfo EXCEPT !.title = strip(Slice(s, 1, SetMin(m2))),
                               !.year = Slice(s, SetMin(m2) + 2, SetMin(m2) + 5)]
        ELSE IF yr # {}
        THEN [EmptyInfo EXCEPT !.title = strip(Slice(s, 1, SetMin(yr) - 1)),
                               !.year = Slice(s, SetMin(yr), SetMin(yr) + 3)]
        ELSE EmptyInfo

----------------------------------------------------------------------------
(* Classification and name synthesis                                       *)

Str_sample == <<"s", "a", "m", "p", "l", "e">>
Str_trailer == <<"t", "r", "a", "i", "l", "e", "r">>
Str_preview == <<"p", "r", "e", "v", "i", "e", "w">>
Str_unorganized == <<"u", "n", "o", "r", "g", "a", "n", "i", "z", "e", "d">>
Str_unorganized_files == Str_unorganized \o <<"_", "f", "i", "l", "e", "s">>
Str_original_structure == <<"o", "r", "i", "g", "i", "n", "a", "l", "_", "s", "t", "r", "u", "c", "t", "u", "r", "e", ".", "t", "x", "t">>
Str_movies == <<"m", "o", "v", "i", "e", "s">>
Str_tv_shows == <<"t", "v", "_", "s", "h", "o", "w", "s">>
Str_music == <<"m", "u", "s", "i", "c">>
Str_photos == <<"p", "h", "o", "t", "o", "s">>
Str_downloads == <<"d", "o", "w", "n", "l", "o", "a", "d", "s">>
Str_desktop == <<"d", "e", "s", "k", "t", "o", "p">>
Str_documents == <<"d", "o", "c", "u", "m", "e", "n", "t", "s">>
Str_videos == <<"v", "i", "d", "e", "o", "s">>
Str_pictures == <<"p", "i", "c", "t", "u", "r", "e", "s">>
Str_Season == <<"S", "e", "a", "s", "o", "n", " ">>

\* the media types, named by the directory each gets
MediaTypes == {Str_movies, Str_tv_shows, Str_music, Str_photos}

\* the regular expression pat, whose "." matches any character but a newline, occurs in s
search_wild(s, pat) ==
    \E p \in 1..(Len(s) - Len(pat) + 1) :
        \A k \in 1..Len(pat) :
            IF pat[k] = "." THEN s[p + k - 1] # "\n" ELSE s[p + k - 1] = pat[k]

\* non_movie_patterns of _detect_media_type
NonMoviePatterns ==
    { Str_sample, Str_trailer, Str_preview,
      <<"i", "n", "t", "r", "o">>, <<"o", "u", "t", "r", "o">>,
      <<"b", "e", "h", "i", "n", "d", ".", "t", "h", "e", ".", "s", "c", "e", "n", "e", "s">>,
      <<"b", "l", "o", "o", "p", "e", "r">>,
      <<"f", "e", "a", "t", "u", "r", "e", "t", "t", "e">>,
      <<"d", "e", "l", "e", "t", "e", "d", ".", "s", "c", "e", "n", "e">>,
      <<"a", "l", "t", "e", "r", "n", "a", "t", "e", ".", "e", "n", "d", "i", "n", "g">> }

\* _detect_media_type made to look at the non-movie keywords before the year
detect_media_type_keywords_first(c, name) ==
    Bind(str_lower(name), LAMBDA filename :
    Bind(get_file_extension(name), LAMBDA extension :
    Bind(extract_pattern_info(filename), LAMBDA info :
        IF extension \in c.video_exts
        THEN IF \E p \in 1..Len(filename) : MatchSE(filename, p)
             THEN <<Str_tv_shows, info.season # << >> /\ info.episode # << >>>>
             ELSE IF \E pat \in NonMoviePatterns : search_wild(filename, pat) THEN <<Str_movies, FALSE>>
             ELSE <<Str_movies, info.year # << >> \/ Len(info.title) > 2>>
        ELSE IF extension \in c.audio_exts THEN <<Str_music, FALSE>>
        ELSE IF extension \in c.photo_exts THEN <<Str_photos, FALSE>>
        ELSE <<Str_movies, FALSE>>)))

\* FileOrganizer._detect_media_type on a file name: <<media type, is_recognized>>
detect_media_type(c, name) ==
    Bind(str_lower(name), LAMBDA filename :
    Bind(get_file_extension(name), LAMBDA extension :
    Bind(extract_pattern_info(filename), LAMBDA info :
        IF extension \in c.video_exts
        THEN IF \E p \in 1..Len(filename) : MatchSE(filename, p)
             THEN <<Str_tv_shows, info.season # << >> /\ info.episode # << >>>>
             ELSE IF info.year # << >> THEN <<Str_movies, TRUE>>
             ELSE IF /\ Len(info.title) > 2
                     /\ ~\E pat \in NonMoviePatterns : search_wild(filename, pat)
                  THEN <<Str_movies, TRUE>>
                  ELSE <<Str_movies, FALSE>>
        ELSE IF extension \in c.audio_exts THEN <<Str_music, FALSE>>
        ELSE IF extension \in c.photo_exts THEN <<Str_photos, FALSE>>
        ELSE <<Str_movies, FALSE>>)))

\* FileOrganizer.generate_new_filename on a file name and its pattern info
generate_new_filename(name, info) ==
    LET extension == get_file_extension(name)
    IN  IF info.title = << >>
        THEN clean_filename(SpacesToDots(sanitize_filename(stem(name)))) \o extension
        ELSE LET title == SpacesToDots(sanitize_filename(info.title))
                 year == IF info.year # << >> THEN <<info.year>> ELSE << >>
                 se == IF info.season # << >> /\ info.episode # << >>
                       THEN <<<<"S">> \o info.season \o <<"E">> \o info.episode>>
                       ELSE << >>
             IN  clean_filename(join(<<".">>, <<title>> \o year \o se)) \o extension

----------------------------------------------------------------------------
(* Target directory resolution                                             *)

\* base_path is one of the configured per-category roots
is_category_specific(c, base_path) ==
    \E m \in MediaTypes : c.output_directories[m] # << >> /\ c.output_directories[m] = base_path

\* part.replace(' ', '.')
ReplaceSpaces(s) == [i \in 1..Len(s) |-> IF s[i] = " " THEN "." ELSE s[i]]

\* p / a / b / ... for the names of a sequence
RECURSIVE JoinAll(_, _)
JoinAll(p, names) == IF names = << >> THEN p ELSE JoinAll(PathJoin(p, Head(names)), Tail(names))

\* FileOrganizer._preserve_unorganized_structure
preserve_unorganized_structure(file_path, base_path, media_type) ==
    LET source_parts == PathParent(file_path)
        generic_names == {Str_downloads, Str_desktop, Str_documents, Str_videos, Str_pictures, Str_music}
        last3 == Slice(source_parts, SetMax({1, Len(source_parts) - 2}), Len(source_parts))
        meaningful(part) == str_lower(part) \notin generic_names /\ Len(part) > 2
        \* walking last3 from its end, the parts before the first one that is not meaningful
        bad == {i \in 1..Len(last3) : ~meaningful(last3[i])}
        preserved_parts == IF bad = {} THEN last3 ELSE Slice(last3, SetMax(bad) + 1, Len(last3))
        sanitized_all == [i \in 1..Len(preserved_parts) |-> sanitize_filename(preserved_parts[i])]
        nonempty(part) == part # << >>
        kept == SelectSeq(sanitized_all, nonempty)
        sanitized_parts == [i \in 1..Len(kept) |-> ReplaceSpaces(kept[i])]
        unorganized_path == PathJoin(PathJoin(base_path, media_type), Str_unorganized)
    IN  IF sanitized_parts # << >>
        THEN JoinAll(unorganized_path, Slice(sanitized_parts, 1, SetMin({2, Len(sanitized_parts)})))
        ELSE unorganized_path

\* the generic names each media type leaves out when the base is a per-category root
CategoryGenericNames(media_type) ==
    IF media_type = Str_music THEN {Str_downloads, Str_desktop, Str_music}
    ELSE IF media_type = Str_photos THEN {Str_downloads, Str_desktop, Str_pictures, Str_photos}
    ELSE {Str_downloads, Str_desktop, Str_videos}

\* the unrecognized branch of create_directory_structure (the same for the four media types
\* but for the generic names)
unorganized_directory(c, base_path, new_path, media_type, file_path) ==
    IF is_category_specific(c, base_path)
    THEN LET parent == PathParent(file_path)
             last2 == Slice(parent, SetMax({1, Len(parent) - 1}), Len(parent))
             keep(part) == Len(part) > 2 /\ str_lower(part) \notin CategoryGenericNames(media_type)
             kept == SelectSeq(last2, keep)
         IN  JoinAll(PathJoin(new_path, Str_unorganized),
                     [i \in 1..Len(kept) |-> ReplaceSpaces(sanitize_filename(kept[i]))])
    ELSE preserve_unorganized_structure(file_path, base_path, media_type)

\* FileOrganizer.create_directory_structure: the directory it resolves (and then creates,
\* unless organize_by is none)
create_directory_structure(c, base_path, media_type, pattern_info, is_recognized, file_path) ==
    LET new_path == IF ~is_category_specific(c, base_path) /\ c.organize_by = "type"
                    THEN PathJoin(base_path, media_type) ELSE base_path
    IN  IF c.organize_by = "none" THEN base_path
        ELSE IF media_type = Str_tv_shows
        THEN IF is_recognized /\ pattern_info.title # << >>
             THEN LET show == PathJoin(new_path, SpacesToDots(sanitize_filename(pattern_info.title)))
                  IN  IF pattern_info.season # << >>
                      THEN PathJoin(show, Str_Season \o pattern_info.season)
                      ELSE show
             ELSE unorganized_directory(c, base_path, new_path, media_type, file_path)
        ELSE IF is_recognized THEN new_path
        ELSE unorganized_directory(c, base_path, new_path, media_type, file_path)

\* the base directory plan_file_move takes from the configuration when it is given none
config_base_dir(c, media_type) ==
    IF c.output_directories[media_type] # << >>
    THEN c.output_directories[media_type]
    ELSE c.output_directory

----------------------------------------------------------------------------
(* The file system: D is the set of directories, F maps each regular file  *)
(* to its content.  The current directory << >> and the root are           *)
(* directories that always exist.                                          *)

exists(D, F, p) == p \in D \/ p \in DOMAIN F

is_file(F, p) == p \in DOMAIN F

is_dir(D, p) == p \in D

\* Path.iterdir / os.listdir: the entries of directory p
iterdir(D, F, p) == {q \in D \cup DOMAIN F : Len(q) = Len(p) + 1 /\ IsUnder(q, p)}

\* p and its ancestors, but the current directory and the root
Lineage(p) == {Slice(p, 1, k) : k \in 1..Len(p)} \ {RootPath}

\* Path.mkdir(parents=True, exist_ok=True) succeeds: no regular file is in the way
mkdir_ok(F, p) == \A q \in Lineage(p) : q \notin DOMAIN F

\* the directories after Path.mkdir(parents=True, exist_ok=True)
mkdir_p(D, p) == D \cup Lineage(p)

\* F without the file at p
RemoveFile(F, p) == [q \in DOMAIN F \ {p} |-> F[q]]

\* F with content x at p
PutFile(F, p, x) == [q \in DOMAIN F \cup {p} |-> IF q = p THEN x ELSE F[q]]

----------------------------------------------------------------------------
(* Associated files                                                        *)

ImageExts == { <<".", "j", "p", "g">>,
      <<".", "j", "p", "e", "g">>,
      <<".", "p", "n", "g">>,
      <<".", "g", "i", "f">>,
      <<".", "b", "m", "p">>,
      <<".", "w", "e", "b", "p">>,
      <<".", "t", "i", "f", "f">>,
      <<".", "t", "i", "f">> }

MetadataExts == { <<".", "n", "f", "o">>,
      <<".", "x", "m", "l">>,
      <<".", "t", "x", "t">> }

SubtitleExts == { <<".", "s", "r", "t">>,
      <<".", "v", "t", "t">>,
      <<".", "a", "s", "s">>,
      <<".", "s", "s", "a">>,
      <<".", "s", "u", "b">>,
      <<".", "i", "d", "x">> }

\* video_exts of _is_sample_or_junk_file
JunkVideoExts == { <<".", "m", "p", "4">>,
      <<".", "a", "v", "i">>,
      <<".", "m", "k", "v">>,
      <<".", "m", "o", "v">>,
      <<".", "w", "m", "v">>,
      <<".", "f", "l", "v">>,
      <<".", "w", "e", "b", "m">> }

\* the extensions find_associated_files is lenient with
ImageOrMetadataExts == { <<".", "j", "p", "g">>,
      <<".", "j", "p", "e", "g">>,
      <<".", "p", "n", "g">>,
      <<".", "g", "i", "f">>,
      <<".", "b", "m", "p">>,
      <<".", "w", "e", "b", "p">>,
      <<".", "t", "i", "f", "f">>,
      <<".", "t", "i", "f">>,
      <<".", "n", "f", "o">>,
      <<".", "x", "m", "l">> }

\* common_patterns of find_associated_files
CommonPatterns == { <<"p", "o", "s", "t", "e", "r">>,
      <<"f", "a", "n", "a", "r", "t">>,
      <<"b", "a", "n", "n", "e", "r">>,
      <<"l", "o", "g", "o">>,
      <<"c", "l", "e", "a", "r", "a", "r", "t">>,
      <<"t", "h", "u", "m", "b">>,
      <<"b", "a", "c", "k", "d", "r", "o", "p">> }

\* sizes are counted in MB
SampleSizeLimit == 50

TinyVideoLimit == 10

\* \w of the regular expressions
IsWordChar(ch) == IsDigit(ch) \/ ch = "_" \/ \E i \in 1..26 : ch = UpperCase[i] \/ ch = LowerCase[i]

\* r'\bword\b' occurs in s, for a word made of word characters
search_word(s, w) ==
    \E p \in 1..(Len(s) - Len(w) + 1) :
        /\ OccursAt(s, w, p)
        /\ (p > 1 => ~IsWordChar(s[p - 1]))
        /\ (p + Len(w) <= Len(s) => ~IsWordChar(s[p + Len(w)]))

\* is_sample_name of _is_sample_or_junk_file
is_sample_name(filename_lower) ==
    \/ search_word(filename_lower, Str_sample)
    \/ search_word(filename_lower, Str_trailer)
    \/ search_word(filename_lower, Str_preview)
    \/ startswith(filename_lower, Str_sample)
    \/ contains(filename_lower, Str_sample \o <<".">>)
    \/ contains(filename_lower, <<"-">> \o Str_sample)

\* FileOrganizer._is_sample_or_junk_file
is_sample_or_junk_file(F, p) ==
    LET filename_lower == str_lower(PathName(p))
        is_video == \E ext \in JunkVideoExts : endswith(filename_lower, ext)
    IN  /\ p \in DOMAIN F
        /\ is_video
        /\ \/ is_sample_name(filename_lower) /\ F[p].size < SampleSizeLimit
           \/ F[p].size < TinyVideoLimit

\* _should_keep_with_main_file without its sample/junk test: every file is kept
should_keep_without_junk_test(F, p) == TRUE

\* FileOrganizer._should_keep_with_main_file
should_keep_with_main_file(F, p) ==
    LET extension == get_file_extension(PathName(p))
    IN  \/ extension \in ImageExts
        \/ extension \in MetadataExts
        \/ extension \in SubtitleExts
        \/ ~is_sample_or_junk_file(F, p)

\* s[:n]
Prefix(s, n) == Slice(s, 1, SetMin({n, Len(s)}))

\* the name test of find_associated_files
is_associated_name(main_name, potential_name) ==
    LET main_base == str_lower(stem(main_name))
        potential_base == str_lower(stem(potential_name))
        extension == get_file_extension(potential_name)
        is_similar_name ==
            \/ potential_base = main_base
            \/ startswith(potential_base, main_base \o <<"-">>)
            \/ startswith(potential_base, main_base \o <<"_">>)
            \/ startswith(potential_base, main_base \o <<".">>)
            \/ startswith(main_base, potential_base)
        is_common_pattern ==
            \E pattern \in CommonPatterns :
                /\ contains(potential_base, pattern)
                /\ (contains(potential_base, main_base) \/ contains(main_base, potential_base))
        is_directory_match ==
            /\ extension \in ImageOrMetadataExts
            /\ \/ startswith(potential_base, Prefix(main_base, 10))
               \/ startswith(main_base, Prefix(potential_base, 10))
    IN  is_similar_name \/ is_common_pattern \/ is_directory_match

\* FileOrganizer.find_associated_files: the files it returns, in the order the directory
\* listing happens to give them
find_associated_files(D, F, file_path) ==
    {q \in iterdir(D, F, PathParent(file_path)) :
        /\ q # file_path
        /\ is_file(F, q)
        /\ should_keep_with_main_file(F, q)
        /\ is_associated_name(PathName(file_path), PathName(q))}

\* the orders in which a directory listing can give the files of S
Orderings(S) == {o \in [1..Cardinality(S) -> S] : \A i, j \in 1..Cardinality(S) : i # j => o[i] # o[j]}

----------------------------------------------------------------------------
(* Move planning                                                           *)

\* FileOrganizer.plan_file_move: the plan it returns for the directory it resolved and the
\* listing order of the associated files
plan_file_move(c, file_path, target_dir, associated) ==
    Bind(PathName(file_path), LAMBDA name :
    Bind(detect_media_type(c, name), LAMBDA detected :
    Bind(PathJoin(target_dir, generate_new_filename(name, extract_pattern_info(name))), LAMBDA new_path :
        [ file |-> file_path,
          to |-> new_path,
          associated |-> [i \in 1..Len(associated) |->
                            [from |-> associated[i],
                             to |-> PathJoin(target_dir, clean_filename(PathName(associated[i])))]],
          changed |-> file_path # new_path,
          media_type |-> detected[1],
          is_recognized |-> detected[2],
          target_dir |-> target_dir ])))

\* the directory plan_file_move resolves for file_path (target_base_dir << >>: from the configuration)
plan_target_dir(c, file_path, target_base_dir) ==
    Bind(PathName(file_path), LAMBDA name :
    Bind(detect_media_type(c, name), LAMBDA detected :
    Bind(IF target_base_dir = << >> THEN config_base_dir(c, detected[1]) ELSE target_base_dir, LAMBDA base :
    Bind(extract_pattern_info(name), LAMBDA pattern_info :
        create_directory_structure(c, base, detected[1], pattern_info, detected[2], file_path)))))

----------------------------------------------------------------------------
(* Moving files (POSIX rename, shutil.copy2, unlink)                       *)

\* the mount point p lives on: its longest ancestor-or-self in M, << >> when there is none
DeviceOf(M, p) ==
    LET above == {m \in M : IsUnder(p, m)}
    IN  IF above = {} THEN << >> ELSE CHOOSE m \in above : \A n \in above : Len(n) <= Len(m)

\* the steps of a move at which the operating system can refuse (an OSError other than EXDEV)
Faults == {"none", "mkdir", "rename", "copy", "unlink"}

\* a file the program wrote itself: what a copy that failed part-way leaves at its destination
PartialContent == [id |-> 0, size |-> 0, entries |-> {}]

\* p with its prefix a replaced by b
Reprefix(p, a, b) == b \o Slice(p, Len(a) + 1, Len(p))

\* os.rename(src, dst) on POSIX: [ok, D, F]
posix_rename(D, F, src, dst) ==
    LET fail == [ok |-> FALSE, D |-> D, F |-> F]
    IN  IF ~exists(D, F, src) \/ PathParent(dst) \notin D THEN fail
        ELSE IF src = dst THEN [ok |-> TRUE, D |-> D, F |-> F]
        ELSE IF src \in DOMAIN F
        THEN IF dst \in D THEN fail
             ELSE [ok |-> TRUE, D |-> D, F |-> PutFile(RemoveFile(F, src), dst, F[src])]
        ELSE IF dst \in DOMAIN F \/ IsUnder(dst, src) \/ (dst \in D /\ iterdir(D, F, dst) # {}) THEN fail
        ELSE LET moved(q) == IF IsUnder(q, src) THEN Reprefix(q, src, dst) ELSE q
                 keptF == {q \in DOMAIN F : ~IsUnder(q, src)}
                 goneF == {q \in DOMAIN F : IsUnder(q, src)}
             IN  [ok |-> TRUE,
                  D |-> {moved(q) : q \in D},
                  F |-> [q \in keptF \cup {moved(g) : g \in goneF} |->
                            IF q \in keptF THEN F[q]
                            ELSE F[CHOOSE g \in goneF : moved(g) = q]]]

\* move_file_cross_device(source, destination): [ok, D, F]; fault names the step the
\* operating system refuses, if any
move_file_cross_device(D, F, M, source, destination, fault) ==
    LET parent == PathParent(destination)
        D1 == mkdir_p(D, parent)
        xdev == DeviceOf(M, source) # DeviceOf(M, parent)
        \* shutil.copy2 copies into a destination that is a directory
        target == IF destination \in D1 THEN PathJoin(destination, PathName(source)) ELSE destination
        r == posix_rename(D1, F, source, destination)
    IN  IF ~mkdir_ok(F, parent) \/ fault = "mkdir" THEN [ok |-> FALSE, D |-> D, F |-> F]
        ELSE IF ~exists(D1, F, source) THEN [ok |-> FALSE, D |-> D1, F |-> F]
        ELSE IF source \in DOMAIN F /\ xdev
        THEN \* errno 18: copy, then delete the original
             IF target \in D1 \/ target = source THEN [ok |-> FALSE, D |-> D1, F |-> F]
             ELSE IF fault = "copy" THEN [ok |-> FALSE, D |-> D1, F |-> PutFile(F, target, PartialContent)]
             ELSE IF fault = "unlink" THEN [ok |-> FALSE, D |-> D1, F |-> PutFile(F, target, F[source])]
             ELSE [ok |-> TRUE, D |-> D1, F |-> PutFile(RemoveFile(F, source), target, F[source])]
        ELSE IF fault = "rename" \/ xdev THEN [ok |-> FALSE, D |-> D1, F |-> F]
        ELSE r

----------------------------------------------------------------------------
(* Provenance of unrecognized files                                        *)

\* FileOrganizer._save_original_structure: the files after the mappings were appended to
\* target_dir/original_structure.txt (each entry: <<original path, new name>>); an error
\* is logged and changes nothing
save_original_structure(D, F, target_dir, file_mappings) ==
    LET mapping_file == PathJoin(target_dir, Str_original_structure)
        new == {<<m.from, PathName(m.to)>> : m \in file_mappings}
    IN  IF target_dir \notin D \/ mapping_file \in D THEN F
        ELSE IF mapping_file \in DOMAIN F
        THEN PutFile(F, mapping_file, [F[mapping_file] EXCEPT !.entries = @ \cup new])
        ELSE PutFile(F, mapping_file, [id |-> 0, size |-> 0, entries |-> new])

----------------------------------------------------------------------------
(* Move execution                                                          *)

\* the moves of a plan in the order execute_move makes them: the main file if the plan
\* is changed, then the associated files
PlanMoves(plan) ==
    (IF plan.changed THEN <<[from |-> plan.file, to |-> plan.to]>> ELSE << >>) \o plan.associated

\* the loop of execute_move made to go on after a move that failed
RECURSIVE run_moves_past_failure(_, _, _, _, _, _)
run_moves_past_failure(st, M, moves, i, failAt, fault) ==
    IF i > Len(moves) THEN st
    ELSE Bind(move_file_cross_device(st.D, st.F, M, moves[i].from, moves[i].to,
                                     IF i = failAt THEN fault ELSE "none"), LAMBDA r :
             run_moves_past_failure([D |-> r.D, F |-> r.F, log |-> Append(st.log, r.ok)],
                                    M, moves, i + 1, failAt, fault))

\* the loop of execute_move over moves[i..]: st = [D, F, log], log the result of each
\* move_file_cross_device call made so far; it stops at the first call that fails
RECURSIVE run_moves(_, _, _, _, _, _)
run_moves(st, M, moves, i, failAt, fault) ==
    IF i > Len(moves) THEN st
    ELSE Bind(move_file_cross_device(st.D, st.F, M, moves[i].from, moves[i].to,
                                     IF i = failAt THEN fault ELSE "none"), LAMBDA r :
         Bind([D |-> r.D, F |-> r.F, log |-> Append(st.log, r.ok)], LAMBDA st1 :
             IF r.ok THEN run_moves(st1, M, moves, i + 1, failAt, fault) ELSE st1))

\* execute_move past its dry-run return: the moves, the provenance file and the tracking
\* of the source directory
execute_move_real(D, F, SD, M, move_plan, failAt, fault) ==
    Bind(PlanMoves(move_plan), LAMBDA moves :
    Bind(run_moves([D |-> D, F |-> F, log |-> << >>], M, moves, 1, failAt, fault), LAMBDA st :
    Bind(IF move_plan.is_recognized THEN {} ELSE {moves[i] : i \in 1..Len(moves)}, LAMBDA file_mappings :
    Bind(PathParent(move_plan.file), LAMBDA source_dir :
        LET failed == \E i \in 1..Len(st.log) : ~st.log[i]
            F2 == IF file_mappings # {}
                  THEN save_original_structure(st.D, st.F, move_plan.target_dir, file_mappings)
                  ELSE st.F
            SD2 == IF move_plan.changed /\ source_dir # PathParent(move_plan.to) /\ source_dir \in st.D
                   THEN SD \cup {source_dir} ELSE SD
        IN  IF failed THEN [D |-> st.D, F |-> st.F, srcdirs |-> SD, ret |-> FALSE, log |-> st.log]
            ELSE [D |-> st.D, F |-> F2, srcdirs |-> SD2, ret |-> TRUE, log |-> st.log]))))

\* execute_move with its dry-run return removed
execute_move_without_dry_run(D, F, SD, M, move_plan, dry_run, failAt, fault) ==
    execute_move_real(D, F, SD, M, move_plan, failAt, fault)

\* FileOrganizer.execute_move: [D, F, srcdirs, ret, log] after the call; failAt and fault
\* name the move (by its position in PlanMoves) and the step the operating system refuses
execute_move(D, F, SD, M, move_plan, dry_run, failAt, fault) ==
    IF dry_run THEN [D |-> D, F |-> F, srcdirs |-> SD, ret |-> TRUE, log |-> << >>]
    ELSE execute_move_real(D, F, SD, M, move_plan, failAt, fault)

----------------------------------------------------------------------------
(* The library the organizer works on                                      *)

\* bounds of the model
MaxCalls == 4

MaxPlans == 2

Dir_in == <<"i", "n">>
Dir_out == <<"o", "u", "t">>
Dir_lib == <<"l", "i", "b">>
Dir_a1x == <<"a", "1", "x">>
Dir_b2x == <<"b", "2", "x">>
Dir_clips == <<"c", "l", "i", "p", "s">>
Name_Up == <<"U", "p", ".", "2", "0", "0", "9", ".", "m", "k", "v">>
Name_UpHD == <<"U", "p", ".", "2", "0", "0", "9", ".", "H", "D", ".", "m", "k", "v">>
Name_vid == <<"v", "i", "d", ".", "m", "p", "4">>
Name_vid_srt == <<"v", "i", "d", ".", "s", "r", "t">>
Name_vid_nfo == <<"v", "i", "d", ".", "n", "f", "o">>

\* advanced.video_extensions, audio_extensions and photo_extensions of the configuration
VideoExts == {<<".", "m", "k", "v">>, <<".", "m", "p", "4">>}
AudioExts == {<<".", "m", "p", "3">>}
PhotoExts == {<<".", "j", "p", "g">>}

NoCategoryDirs == [m \in MediaTypes |-> << >>]

\* the configurations: by type under out, by type with a per-category root for movies,
\* and no organization
Configs ==
    { [organize_by |-> "type", output_directory |-> <<Dir_out>>, output_directories |-> NoCategoryDirs,
       video_exts |-> VideoExts, audio_exts |-> AudioExts, photo_exts |-> PhotoExts],
      [organize_by |-> "type", output_directory |-> <<Dir_out>>,
       output_directories |-> [NoCategoryDirs EXCEPT ![Str_movies] = <<Dir_lib, Str_movies>>],
       video_exts |-> VideoExts, audio_exts |-> AudioExts, photo_exts |-> PhotoExts],
      [organize_by |-> "none", output_directory |-> <<Dir_out>>, output_directories |-> NoCategoryDirs,
       video_exts |-> VideoExts, audio_exts |-> AudioExts, photo_exts |-> PhotoExts] }

Data(id, size) == [id |-> id, size |-> size, entries |-> {}]

\* the source tree: two releases of one movie, and an unrecognized clip with two sidecars
SourceDirs == {<< >>, RootPath, <<Dir_in>>, <<Dir_in, Dir_a1x>>, <<Dir_in, Dir_b2x>>, <<Dir_in, Dir_clips>>}

SourceFiles ==
    (<<Dir_in, Dir_a1x, Name_Up>> :> Data(1, 700)) @@
    (<<Dir_in, Dir_b2x, Name_UpHD>> :> Data(2, 700)) @@
    (<<Dir_in, Dir_clips, Name_vid>> :> Data(3, 700)) @@
    (<<Dir_in, Dir_clips, Name_vid_srt>> :> Data(4, 0)) @@
    (<<Dir_in, Dir_clips, Name_vid_nfo>> :> Data(5, 0))

\* is_media_file: what the scanner hands to the organizer
is_media_file(c, p) ==
    get_file_extension(PathName(p)) \in c.video_exts \cup c.audio_exts \cup c.photo_exts

NoPlan ==
    [file |-> << >>, to |-> << >>, associated |-> << >>, changed |-> FALSE,
     media_type |-> << >>, is_recognized |-> FALSE, target_dir |-> << >>]

\* stats as _cleanup_output_directory initialises it
NoStats == [empty_dirs_removed |-> 0, files_moved_to_unorganized |-> 0, dirs_moved_to_unorganized |-> 0]

NoCall ==
    [op |-> "none", arg |-> << >>, plan |-> NoPlan, dry |-> FALSE, raised |-> FALSE,
     ret |-> FALSE, log |-> << >>, preD |-> {}, preF |-> << >>, preSrc |-> {},
     given |-> {}, recursive |-> FALSE, exclude |-> {}, removed |-> {}, listed |-> {}, count |-> 0, busy |-> {}, organized |-> {},
     stats |-> NoStats, pass |-> 0, dest |-> << >>, failAt |-> 0, fault |-> "none",
     info |-> EmptyInfo, out |-> << >>, back |-> EmptyInfo, found |-> {}]

\* no execute_move calls running at once
NoConc == [t |-> << >>, attr |-> FALSE, mixed |-> FALSE, D0 |-> {}, F0 |-> << >>]

\* the organize command before it starts: pc its position, files the scanned list, i the
\* index of the loop it is in, planned the files of the planning loop, handled and
\* attempted the files the execution loop planned again and called execute_move on,
\* confirmed and final whether the prompt was answered yes and the final cleanup was made,
\* D0 and F0 the file system when the command started, directory the directory argument,
\* removed the directories the cleanup of the source directories removed
OrgIdle ==
    [pc |-> "idle", dry_run |-> FALSE, files |-> << >>, i |-> 0, changed_count |-> 0,
     planned |-> << >>, handled |-> << >>, attempted |-> << >>, source_directories |-> {},
     success_count |-> 0, confirmed |-> FALSE, final |-> FALSE, D0 |-> {}, F0 |-> << >>,
     directory |-> <<Dir_in>>, removed |-> {}]

\* the steps of plan_file_move that can raise: creating the directory it resolved, listing
\* the directory of the file
PlanFaults == {"none", "mkdir", "listdir"}

\* what plan_file_move(f, None) does to the file system: [D, target_dir, raised]
plan_call(c, D, F, f, fault) ==
    Bind(plan_target_dir(c, f, << >>), LAMBDA td :
    Bind(c.organize_by # "none" /\ (fault = "mkdir" \/ ~mkdir_ok(F, td)), LAMBDA mkdir_raises :
    Bind(IF c.organize_by # "none" /\ ~mkdir_raises THEN mkdir_p(D, td) ELSE D, LAMBDA D1 :
        [D |-> D1, target_dir |-> td,
         raised |-> mkdir_raises \/ fault = "listdir" \/ PathParent(f) \notin D1])))

Init ==
    /\ cfg \in Configs
    /\ mounts \in {{}, {<<Dir_out>>}}
    /\ dirs = SourceDirs
    /\ files = SourceFiles
    /\ srcdirs = {}
    /\ plans = {}
    /\ last = NoCall
    /\ calls = 0
    /\ org = OrgIdle
    /\ hist = {}
    /\ loaded = << >>
    /\ conc = NoConc

----------------------------------------------------------------------------
(* Calls on the organizer                                                  *)

\* plan_file_move(f, None).  It creates the directory it resolved, then lists the
\* directory of f; an OSError of either (fault) leaves the call by an exception.
PlanFileMove(f, fault) ==
    /\ calls < MaxCalls
    /\ \E pc \in {plan_call(cfg, dirs, files, f, fault)} :
       \E order \in (IF pc.raised THEN {<< >>} ELSE Orderings(find_associated_files(pc.D, files, f))) :
       \E plan \in {IF pc.raised THEN NoPlan ELSE plan_file_move(cfg, f, pc.target_dir, order)} :
          /\ ~pc.raised => (plan \in plans \/ Cardinality(plans) < MaxPlans)
          /\ plans' = IF pc.raised THEN plans ELSE plans \cup {plan}
          /\ last' = [NoCall EXCEPT !.op = "plan", !.arg = f, !.plan = plan, !.raised = pc.raised,
                                    !.preD = dirs, !.preF = files, !.preSrc = srcdirs]
          /\ dirs' = pc.D
    /\ calls' = calls + 1
    /\ UNCHANGED <<files, cfg, srcdirs, org, mounts, hist, loaded, conc>>

\* execute_move(plan, dry_run) on a plan the caller holds
ExecuteMove(plan, dry_run, failAt, fault) ==
    \E r \in {execute_move(dirs, files, srcdirs, mounts, plan, dry_run, failAt, fault)} :
        /\ calls < MaxCalls
        /\ dirs' = r.D
        /\ files' = r.F
        /\ srcdirs' = r.srcdirs
        /\ last' = [NoCall EXCEPT !.op = "execute", !.arg = plan.file, !.plan = plan, !.dry = dry_run,
                                  !.ret = r.ret, !.log = r.log,
                                  !.preD = dirs, !.preF = files, !.preSrc = srcdirs]
        /\ hist' = IF dry_run THEN hist
                   ELSE hist \cup {[file |-> plan.file, to |-> plan.to, ret |-> r.ret,
                                    id |-> IF plan.file \in DOMAIN files THEN files[plan.file].id ELSE 0,
                                    moved |-> plan.changed /\ r.log # << >> /\ r.log[1]]}
        /\ calls' = calls + 1
        /\ UNCHANGED <<cfg, plans, org, mounts, loaded, conc>>

Next ==
    \/ \E f \in {p \in DOMAIN files : is_media_file(cfg, p)}, fault \in PlanFaults :
          PlanFileMove(f, fault)
    \/ \E plan \in plans, dry_run \in BOOLEAN, fault \in Faults :
          \E failAt \in (IF fault = "none" THEN {0} ELSE 1..Len(PlanMoves(plan))) :
              ExecuteMove(plan, dry_run, failAt, fault)

Spec == Init /\ [][Next]_vars

----------------------------------------------------------------------------
(* Properties of planning and execution                                    *)

\* the contents (by identity) the files hold
Contents(F) == {F[p].id : p \in DOMAIN F}

\* the last call was a real execute_move
RealExecute == last.op = "execute" /\ ~last.dry

\* C1: when two plans with distinct source files and one destination file were both
\* executed for real, the content of both source files is still on the file system
C1_BothContentsSurvive ==
    \A a, b \in hist :
        (a.file # b.file /\ a.to = b.to /\ a.moved /\ b.moved) =>
            {a.id, b.id} \subseteq Contents(files)

\* C2: plan_file_move on a file that a real execute_move has moved to its planned
\* destination returns changed = false
C2_ReplanUnchanged ==
    (/\ last.op = "plan" /\ ~last.raised
     /\ \E h \in hist : h.moved /\ h.to = last.arg /\ files[last.arg].id = h.id)
        => ~last.plan.changed

\* the same for the files the organizer recognized: a recognized file is planned to stay
\* where a real execute_move has put it
C2_RecognizedReplanUnchanged ==
    (/\ last.op = "plan" /\ ~last.raised /\ last.plan.is_recognized
     /\ \E h \in hist : h.moved /\ h.to = last.arg /\ files[last.arg].id = h.id)
        => ~last.plan.changed

\* C4: after a real execute_move on a plan that is not recognized, every file the call
\* moved has an entry in original_structure.txt of the plan's target directory
C4_MovedFilesRecorded ==
    (RealExecute /\ ~last.plan.is_recognized) =>
        \A i \in 1..Len(last.log) :
            last.log[i] =>
                LET m == PlanMoves(last.plan)[i]
                    mapping_file == PathJoin(last.plan.target_dir, Str_original_structure)
                IN  /\ mapping_file \in DOMAIN files
                    /\ <<m.from, PathName(m.to)>> \in files[mapping_file].entries

\* C5: a real execute_move makes the moves of the plan in order and stops at the first
\* that fails, returning False exactly then; the moves before the failing one stay made,
\* the failing one and those after it leave their source files where they were
C5_StopsAtFirstFailure ==
    RealExecute =>
        LET moves == PlanMoves(last.plan)
            n == Len(last.log)
        IN  /\ n <= Len(moves)
            /\ \A i \in 1..(n - 1) : last.log[i]
            /\ last.ret = (\A i \in 1..n : last.log[i])
            /\ last.ret => n = Len(moves)
            /\ \A i \in 1..Len(moves) :
                  IF i <= n /\ last.log[i]
                  THEN /\ moves[i].to \in DOMAIN files
                       /\ files[moves[i].to].id = last.preF[moves[i].from].id
                       /\ moves[i].from # moves[i].to => moves[i].from \notin DOMAIN files
                  ELSE moves[i].from \in DOMAIN last.preF =>
                          /\ moves[i].from \in DOMAIN files
                          /\ files[moves[i].from] = last.preF[moves[i].from]

\* a real execute_move has failed on an associated file after it moved the main file
C5_Witness ==
    /\ RealExecute /\ ~last.ret
    /\ Len(last.log) = 2 /\ last.log[1] /\ Len(PlanMoves(last.plan)) = 3

\* C6: execute_move with dry_run returns True and leaves the files, the directories, the
\* provenance files and the tracked source directories as they were
C6_DryRunChangesNothing ==
    (last.op = "execute" /\ last.dry) =>
        /\ last.ret
        /\ dirs = last.preD
        /\ files = last.preF
        /\ srcdirs = last.preSrc

\* a dry run of a changed plan whose source file is no longer there
C6_Witness ==
    /\ last.op = "execute" /\ last.dry
    /\ last.plan.changed /\ last.plan.file \notin DOMAIN files

\* C8: plan_file_move leaves the files and the directories as they were
C8_PlanningChangesNothing ==
    last.op = "plan" => (dirs = last.preD /\ files = last.preF)

----------------------------------------------------------------------------
(* Cleanup of empty directories                                            *)

\* should_exclude made to know the excluded paths themselves only
should_exclude_exact(exclude_set, path) == path \in exclude_set

\* should_exclude of _cleanup_empty_directories: path is an excluded path or lies under one
should_exclude(exclude_set, path) == \E e \in exclude_set : IsUnder(path, e)

\* Path.rmdir made to remove a directory that has entries
rmdir_forced(D, F, p, busy) ==
    p \in D /\ p \notin busy /\ p # << >> /\ p # RootPath

\* Path.rmdir succeeds: the directory has no entry, is not the current directory or the
\* root, and the operating system does not hold it (busy)
rmdir_ok(D, F, p, busy) ==
    p \in D /\ iterdir(D, F, p) = {} /\ p \notin busy /\ p # << >> /\ p # RootPath

\* the walk after rmdir(directory): st = [D, removed_dirs, listed, removed_count], listed
\* the removed directories that had entries when the walk listed them
rmdir_done(st, directory, contents) ==
    [D |-> st.D \ {directory},
     removed_dirs |-> st.removed_dirs \cup {directory},
     listed |-> IF contents # {} THEN st.listed \cup {directory} ELSE st.listed,
     removed_count |-> st.removed_count + 1]

RECURSIVE cleanup_subdirectories(_, _, _, _, _)
RECURSIVE cleanup_empty_directories_recursive(_, _, _, _, _)
\* the loops "for item in contents" over the subdirectories items
cleanup_subdirectories(st, F, items, exclude_set, busy) ==
    IF items = {} THEN st
    ELSE Bind(CHOOSE i \in items : TRUE, LAMBDA item :
             cleanup_subdirectories(cleanup_empty_directories_recursive(st, F, item, exclude_set, busy),
                                    F, items \ {item}, exclude_set, busy))

\* FileOrganizer._cleanup_empty_directories_recursive
cleanup_empty_directories_recursive(st, F, directory, exclude_set, busy) ==
    IF directory \in st.removed_dirs \/ should_exclude(exclude_set, directory) THEN st
    ELSE Bind(iterdir(st.D, F, directory), LAMBDA contents :
         Bind(cleanup_subdirectories(st, F, {i \in contents : i \in st.D /\ i \notin st.removed_dirs},
                                     exclude_set, busy), LAMBDA st1 :
             IF rmdir_ok(st1.D, F, directory, busy) THEN rmdir_done(st1, directory, contents) ELSE st1))

\* the while loop of _cleanup_empty_directories made to go on to the parent whatever
\* recursive is
RECURSIVE cleanup_walk_always_up(_, _, _, _, _, _)
cleanup_walk_always_up(st, F, current_dir, recursive, exclude_set, busy) ==
    IF current_dir \notin st.D \/ current_dir \in st.removed_dirs \/ should_exclude(exclude_set, current_dir)
    THEN st
    ELSE Bind(iterdir(st.D, F, current_dir), LAMBDA contents :
         IF \E item \in contents : is_file(F, item) THEN st
         ELSE Bind(cleanup_subdirectories(st, F, {i \in contents : ~should_exclude(exclude_set, i)},
                                          exclude_set, busy), LAMBDA st1 :
              IF rmdir_ok(st1.D, F, current_dir, busy)
              THEN cleanup_walk_always_up(rmdir_done(st1, current_dir, contents), F,
                                          PathParent(current_dir), recursive, exclude_set, busy)
              ELSE st1))

\* the while loop of _cleanup_empty_directories from current_dir upwards
RECURSIVE cleanup_walk(_, _, _, _, _, _)
cleanup_walk(st, F, current_dir, recursive, exclude_set, busy) ==
    IF current_dir \notin st.D \/ current_dir \in st.removed_dirs \/ should_exclude(exclude_set, current_dir)
    THEN st
    ELSE Bind(iterdir(st.D, F, current_dir), LAMBDA contents :
         IF \E item \in contents : is_file(F, item) THEN st
         ELSE Bind(cleanup_subdirectories(st, F, {i \in contents : ~should_exclude(exclude_set, i)},
                                          exclude_set, busy), LAMBDA st1 :
              IF rmdir_ok(st1.D, F, current_dir, busy)
              THEN IF recursive
                   THEN cleanup_walk(rmdir_done(st1, current_dir, contents), F,
                                     PathParent(current_dir), recursive, exclude_set, busy)
                   ELSE rmdir_done(st1, current_dir, contents)
              ELSE st1))

\* the orders sorted(directories, key=depth, reverse=True) can give: deepest first,
\* directories of one depth in the order of the list
DeepestFirst(S) == {o \in Orderings(S) : \A i, j \in 1..Len(o) : i < j => Len(o[i]) >= Len(o[j])}

\* _cleanup_empty_directories made to return when the rmdir of a given directory fails
RECURSIVE cleanup_until_failure(_, _, _, _, _, _, _)
cleanup_until_failure(st, F, directories_sorted, i, recursive, exclude_set, busy) ==
    IF i > Len(directories_sorted) \/ (i > 1 /\ directories_sorted[i - 1] \in busy \cap st.D) THEN st
    ELSE cleanup_until_failure(
             cleanup_walk(st, F, directories_sorted[i], recursive, exclude_set, busy),
             F, directories_sorted, i + 1, recursive, exclude_set, busy)

\* FileOrganizer._cleanup_empty_directories over directories_sorted[i..]
RECURSIVE cleanup_empty_directories(_, _, _, _, _, _, _)
cleanup_empty_directories(st, F, directories_sorted, i, recursive, exclude_set, busy) ==
    IF i > Len(directories_sorted) THEN st
    ELSE cleanup_empty_directories(
             cleanup_walk(st, F, directories_sorted[i], recursive, exclude_set, busy),
             F, directories_sorted, i + 1, recursive, exclude_set, busy)

\* bound of the model: the cleanup calls made on one tree
MaxCleanups == 2

\* what the moves can leave behind under in: directories and the files in them
LeftoverDirs ==
    { <<Dir_in, Dir_a1x>>, <<Dir_in, Dir_a1x, Dir_b2x>>, <<Dir_in, Dir_a1x, Dir_b2x, Dir_clips>>,
      <<Dir_in, Dir_clips>> }

LeftoverFiles ==
    { <<Dir_in, Name_Up>>, <<Dir_in, Dir_a1x, Name_vid_nfo>>, <<Dir_in, Dir_a1x, Dir_b2x, Name_vid_srt>>,
      <<Dir_in, Dir_clips, Name_vid>> }

\* any tree of them
InitCleanup ==
    /\ \E X \in SUBSET LeftoverDirs :
          /\ \A d \in X : Len(d) > 2 => PathParent(d) \in X
          /\ dirs = {<< >>, RootPath, <<Dir_in>>} \cup X
    /\ \E Y \in SUBSET LeftoverFiles :
          /\ \A f \in Y : PathParent(f) \in dirs
          /\ files = [f \in Y |-> Data(1, 1)]
    /\ cfg = CHOOSE c \in Configs : c.organize_by = "none"
    /\ mounts = {}
    /\ srcdirs = {}
    /\ plans = {}
    /\ last = NoCall
    /\ calls = 0
    /\ org = OrgIdle
    /\ hist = {}
    /\ loaded = << >>
    /\ conc = NoConc

\* _cleanup_empty_directories(directories, recursive, exclude_paths); busy: the directories
\* whose rmdir raises an OSError
CleanupEmptyDirectories(directories, recursive, exclude_set, busy) ==
    /\ calls < MaxCleanups
    /\ \E directories_sorted \in DeepestFirst(directories) :
       \E r \in {cleanup_empty_directories([D |-> dirs, removed_dirs |-> {}, listed |-> {}, removed_count |-> 0], files,
                                            directories_sorted, 1, recursive, exclude_set, busy)} :
          /\ dirs' = r.D
          /\ last' = [NoCall EXCEPT !.op = "cleanup_empty", !.given = directories,
                                    !.recursive = recursive, !.exclude = exclude_set,
                                    !.removed = r.removed_dirs, !.listed = r.listed,
                                    !.count = r.removed_count, !.busy = busy,
                                    !.preD = dirs, !.preF = files, !.preSrc = srcdirs]
    /\ calls' = calls + 1
    /\ UNCHANGED <<files, cfg, srcdirs, plans, org, mounts, hist, loaded, conc>>

\* the body of the os.walk loop of _cleanup_empty_directories_in_directory for root_path;
\* the set removed_dirs it hands to _cleanup_empty_directories_recursive is a new one
in_directory_visit(st, F, root_path, directory, exclude_set, busy) ==
    IF should_exclude(exclude_set, root_path) \/ root_path = directory \/ root_path \notin st.D THEN st
    ELSE Bind(iterdir(st.D, F, root_path), LAMBDA contents :
         IF \E item \in contents : is_file(F, item) THEN st
         ELSE Bind(cleanup_subdirectories([st EXCEPT !.removed_dirs = {}], F,
                                          {i \in contents : ~should_exclude(exclude_set, i)},
                                          exclude_set, busy), LAMBDA st1 :
              Bind([st1 EXCEPT !.removed_dirs = @ \cup st.removed_dirs], LAMBDA st2 :
                  IF rmdir_ok(st2.D, F, root_path, busy) THEN rmdir_done(st2, root_path, contents)
                  ELSE st2)))

\* os.walk(directory, topdown=False) with the loop body: top is listed when the walk
\* comes to it and visited after the directories listed in it
RECURSIVE in_directory_walk(_, _, _, _, _, _)
RECURSIVE in_directory_walk_dirs(_, _, _, _, _, _)
in_directory_walk(st, F, top, directory, exclude_set, busy) ==
    IF top \notin st.D THEN st
    ELSE in_directory_visit(
             in_directory_walk_dirs(st, F, {q \in iterdir(st.D, F, top) : q \in st.D},
                                    directory, exclude_set, busy),
             F, top, directory, exclude_set, busy)

in_directory_walk_dirs(st, F, items, directory, exclude_set, busy) ==
    IF items = {} THEN st
    ELSE Bind(CHOOSE i \in items : TRUE, LAMBDA item :
             in_directory_walk_dirs(in_directory_walk(st, F, item, directory, exclude_set, busy),
                                    F, items \ {item}, directory, exclude_set, busy))

\* _cleanup_empty_directories_in_directory(directory, exclude_paths)
CleanupEmptyDirectoriesInDirectory(directory, exclude_set, busy) ==
    /\ calls < MaxCleanups
    /\ \E r \in {in_directory_walk([D |-> dirs, removed_dirs |-> {}, listed |-> {}, removed_count |-> 0],
                                    files, directory, directory, exclude_set, busy)} :
          /\ dirs' = r.D
          /\ last' = [NoCall EXCEPT !.op = "cleanup_in_directory", !.given = {directory},
                                    !.recursive = TRUE, !.exclude = exclude_set,
                                    !.removed = r.removed_dirs, !.listed = r.listed,
                                    !.count = r.removed_count, !.busy = busy,
                                    !.preD = dirs, !.preF = files, !.preSrc = srcdirs]
    /\ calls' = calls + 1
    /\ UNCHANGED <<files, cfg, srcdirs, plans, org, mounts, hist, loaded, conc>>

NextCleanup ==
    \/ \E directories \in {S \in SUBSET (LeftoverDirs \cup {<<Dir_in>>}) : Cardinality(S) \in 1..2},
          recursive \in BOOLEAN,
          exclude_set \in {{}, {<<Dir_in, Dir_a1x, Dir_b2x>>}},
          busy \in {{}, {<<Dir_in, Dir_a1x>>}} :
           CleanupEmptyDirectories(directories, recursive, exclude_set, busy)
    \/ \E directory \in {<<Dir_in>>, <<Dir_in, Dir_a1x>>},
          exclude_set \in {{}, {<<Dir_in, Dir_a1x, Dir_b2x>>}},
          busy \in {{}, {<<Dir_in, Dir_a1x>>}} :
           CleanupEmptyDirectoriesInDirectory(directory, exclude_set, busy)

SpecCleanup == InitCleanup /\ [][NextCleanup]_vars

\* the last call was _cleanup_empty_directories
CleanupCall == last.op = "cleanup_empty"

\* the given directories and, when recursive, their ancestors
GivenOrAncestor ==
    last.given \cup
    (IF last.recursive THEN {a \in last.preD : \E g \in last.given : IsProperAncestor(a, g)} ELSE {})

\* C10 (as stated): a directory is removed only if it is a given directory or (when
\* recursive) an ancestor of one, and only if it had no entry when the walk examined it
C10_OnlyGivenAndEmpty ==
    CleanupCall => \A d \in last.removed : d \in GivenOrAncestor /\ d \notin last.listed

\* C10 (amended): a directory is removed only if it is a given directory, (when recursive)
\* an ancestor of one, or lies beneath one of those, and only if no regular file lay
\* anywhere beneath it before the call and nothing is left beneath it; excluded
\* directories stay; a given directory or ancestor that directly holds a regular file
\* stays, as do its ancestors; files are never touched
C10_RemovesOnlyFileFreeDirectories ==
    CleanupCall =>
        /\ files = last.preF
        /\ dirs = last.preD \ last.removed
        /\ \A d \in last.removed :
              /\ d \in last.preD
              /\ \E w \in GivenOrAncestor : IsUnder(d, w)
              /\ ~should_exclude(last.exclude, d)
              /\ ~\E f \in DOMAIN last.preF : IsUnder(f, d)
              /\ ~\E q \in dirs : IsUnder(q, d)
        /\ \A w \in GivenOrAncestor \cap last.preD :
              (\E f \in DOMAIN last.preF : PathParent(f) = w) =>
                  /\ w \in dirs
                  /\ \A a \in last.preD : IsProperAncestor(a, w) => a \in dirs

\* the last call was one of the cleanups of empty directories
AnyCleanupCall == last.op \in {"cleanup_empty", "cleanup_in_directory"}

\* C24: _cleanup_empty_directories and _cleanup_empty_directories_in_directory, with the
\* directories they clean through _cleanup_empty_directories_recursive, leave the regular
\* files as they were, at their paths, and remove no directory with a regular file
\* beneath it at any depth
C24_FilesAndTheirDirectoriesStay ==
    AnyCleanupCall =>
        /\ files = last.preF
        /\ \A f \in DOMAIN last.preF, d \in last.preD : IsUnder(f, d) => d \in dirs /\ d \notin last.removed

\* _cleanup_empty_directories_in_directory removed a directory beside one that holds a
\* file two levels down
C24_Witness ==
    /\ last.op = "cleanup_in_directory" /\ last.removed # {}
    /\ \E f \in DOMAIN files, d \in dirs, r \in last.removed :
          /\ IsUnder(f, d) /\ PathParent(f) # d
          /\ PathParent(r) = PathParent(d)

\* C25: a call of _cleanup_empty_directories in which the rmdir of some directories fails
\* (busy: not empty any more, in use, or permission denied) raises nothing, leaves those
\* directories and their ancestors, still removes every other given directory that is
\* empty and not excluded, and returns the number of directories it removed
C25_FailedRemovalIsBenign ==
    CleanupCall =>
        /\ ~last.raised
        /\ last.removed = last.preD \ dirs
        /\ last.count = Cardinality(last.preD \ dirs)
        /\ \A b \in last.busy \cap last.preD, a \in last.preD : IsUnder(b, a) => a \in dirs
        /\ \A g \in last.given \cap last.preD :
              (iterdir(last.preD, last.preF, g) = {} /\ g \notin last.busy /\ ~should_exclude(last.exclude, g))
                  => g \in last.removed

\* the rmdir of a given empty directory failed and another given directory was removed
C25_Witness ==
    /\ CleanupCall
    /\ \E b \in last.busy \cap last.given \cap dirs, g \in last.given \cap last.removed :
          /\ iterdir(last.preD, last.preF, b) = {}
          /\ Len(g) <= Len(b)
    /\ last.count = 1

\* C23: _cleanup_empty_directories, for any list of directories and both values of
\* recursive, removes no excluded path, no directory beneath an excluded path and no
\* ancestor of an excluded path that exists, the directories cleaned through
\* _cleanup_empty_directories_recursive included (directories and excluded paths written
\* in one form, as Path compares them)
C23_ExcludedPathsStay ==
    CleanupCall =>
        \A d \in last.removed, e \in last.exclude :
            /\ ~IsUnder(d, e)
            /\ exists(last.preD, last.preF, e) => ~IsProperAncestor(d, e)

\* a call given an ancestor of an excluded empty directory, with only directories between
\* them, removed something and left the excluded directory
C23_Witness ==
    /\ CleanupCall /\ last.removed # {}
    /\ \E e \in last.exclude \cap dirs, g \in last.given :
          /\ IsProperAncestor(g, e)
          /\ ~\E f \in DOMAIN last.preF : IsUnder(f, e) \/ PathParent(f) = g \/ PathParent(f) = PathParent(e)

\* a given directory that held only a subdirectory was removed together with it
C10_Witness ==
    /\ CleanupCall
    /\ \E g \in last.given \cap last.removed \cap last.listed :
          \E d \in last.removed : IsProperAncestor(g, d) /\ d \notin GivenOrAncestor

----------------------------------------------------------------------------
(* Cleanup of the output directory                                         *)

\* unorganized_file_patterns and unorganized_dir_patterns of _cleanup_output_directory
UnorganizedFilePatterns ==
    { <<"t", "h", "u", "m", "b", "s", ".", "d", "b">>,
      <<".", "d", "s", "_", "s", "t", "o", "r", "e">>,
      <<"d", "e", "s", "k", "t", "o", "p", ".", "i", "n", "i">>,
      <<"f", "o", "l", "d", "e", "r", ".", "j", "p", "g">> }

UnorganizedDirPatterns ==
    { <<"_", "_", "p", "y", "c", "a", "c", "h", "e", "_", "_">>,
      <<".", "g", "i", "t">>, <<".", "s", "v", "n">>, <<".", "c", "a", "c", "h", "e">> }

\* any(pattern in name.lower() for pattern in patterns)
matches_pattern(name, patterns) == \E pat \in patterns : contains(str_lower(name), pat)

\* str(counter)
RECURSIVE DecimalOf(_)
DecimalOf(n) ==
    LET digit(d) == <<(<<"0", "1", "2", "3", "4", "5", "6", "7", "8", "9">>)[d + 1]>>
    IN  IF n < 10 THEN digit(n) ELSE DecimalOf(n \div 10) \o digit(n % 10)

\* the loop "while item_dest.exists()": the first dest_dir / f"{stem}_{counter}{suffix}"
\* that does not exist
RECURSIVE free_name(_, _, _, _, _, _)
free_name(D, F, dest_dir, name_stem, name_suffix, counter) ==
    Bind(PathJoin(dest_dir, name_stem \o <<"_">> \o DecimalOf(counter) \o name_suffix), LAMBDA item_dest :
        IF exists(D, F, item_dest)
        THEN free_name(D, F, dest_dir, name_stem, name_suffix, counter + 1)
        ELSE item_dest)

\* where a merged file goes: dest_dir / name, numbered when that exists
merge_dest(D, F, dest_dir, name) ==
    IF exists(D, F, PathJoin(dest_dir, name))
    THEN free_name(D, F, dest_dir, stem(name), suffix(name), 1)
    ELSE PathJoin(dest_dir, name)

\* shutil.copytree(src, dst), dst not existing: [ok, D, F]
copytree(D, F, src, dst) ==
    IF src \notin D \/ exists(D, F, dst) \/ ~mkdir_ok(F, dst) THEN [ok |-> FALSE, D |-> D, F |-> F]
    ELSE LET under == {q \in DOMAIN F : IsUnder(q, src)}
         IN  [ok |-> TRUE,
              D |-> mkdir_p(D, dst) \cup {Reprefix(q, src, dst) : q \in {d \in D : IsUnder(d, src)}},
              F |-> [q \in DOMAIN F \cup {Reprefix(u, src, dst) : u \in under} |->
                        IF q \in DOMAIN F THEN F[q]
                        ELSE F[CHOOSE u \in under : Reprefix(u, src, dst) = q]]]

\* shutil.rmtree(src): [D, F]
rmtree(D, F, src) ==
    [D |-> {d \in D : ~IsUnder(d, src)},
     F |-> [q \in {f \in DOMAIN F : ~IsUnder(f, src)} |-> F[q]]]

\* the entries S in the order the file system lists them: by the position of their names
\* in listing, names it does not hold last
Listing(S, listing) ==
    LET pos(q) == IF \E i \in 1..Len(listing) : listing[i] = PathName(q)
                  THEN CHOOSE i \in 1..Len(listing) : listing[i] = PathName(q)
                  ELSE Len(listing) + 1
    IN  CHOOSE o \in Orderings(S) : \A i, j \in 1..Len(o) : i < j => pos(o[i]) <= pos(o[j])

\* category_folders, in the order the code goes through them
CategoryFolders == <<Str_movies, Str_tv_shows, Str_music, Str_photos>>

\* the unorganized_files directory of a category directory
unorganized_of(category_dir) == PathJoin(category_dir, Str_unorganized_files)

\* the loop that builds category_unorganized_dirs from CategoryFolders[i..]: [D, cats, raised];
\* mkdir raises, out of the method, when a regular file is in its way
RECURSIVE make_unorganized_dirs(_, _, _, _)
make_unorganized_dirs(su, F, output_dir, i) ==
    IF i > Len(CategoryFolders) THEN su
    ELSE Bind(PathJoin(output_dir, CategoryFolders[i]), LAMBDA category_dir :
         IF ~exists(su.D, F, category_dir) THEN make_unorganized_dirs(su, F, output_dir, i + 1)
         ELSE IF ~mkdir_ok(F, unorganized_of(category_dir)) THEN [su EXCEPT !.raised = TRUE]
         ELSE make_unorganized_dirs([D |-> mkdir_p(su.D, unorganized_of(category_dir)),
                                     cats |-> su.cats \cup {category_dir}, raised |-> FALSE],
                                    F, output_dir, i + 1))

\* the test that skips the unorganized_files directories made to skip nothing
in_unorganized_never(ctx, path) == FALSE

\* path is an unorganized_files directory or lies in one
in_unorganized(ctx, path) == \E c \in ctx.cats : IsUnder(path, unorganized_of(c))

\* dest_path of a junk file or directory: its path relative to the category directory, under
\* the unorganized_files directory of the category
unorganized_dest(category_dir, path) ==
    unorganized_of(category_dir) \o Slice(path, Len(category_dir) + 1, Len(path))

\* a move whose result the code does not look at, as a step of the pass: st = [D, F, ok,
\* stats], ok FALSE when an exception has left the merge
moved(st, r) == [st EXCEPT !.D = r.D, !.F = r.F]

\* the junk file relocation of one file of the listing
relocate_file(st, ctx, category_dir, file_path) ==
    IF ~matches_pattern(PathName(file_path), UnorganizedFilePatterns) THEN st
    ELSE Bind(unorganized_dest(category_dir, file_path), LAMBDA dest_path :
         IF ~mkdir_ok(st.F, PathParent(dest_path)) THEN st
         ELSE Bind(moved(st, move_file_cross_device(st.D, st.F, ctx.M, file_path, dest_path, "none")),
                   LAMBDA st1 :
                  [st1 EXCEPT !.stats.files_moved_to_unorganized = @ + 1]))

\* Path.rename of a directory: [ok, D, F]; it raises across devices
rename_dir(D, F, M, src, dst) ==
    IF DeviceOf(M, src) # DeviceOf(M, PathParent(dst)) THEN [ok |-> FALSE, D |-> D, F |-> F]
    ELSE posix_rename(D, F, src, dst)

RECURSIVE relocate_files(_, _, _, _, _)
relocate_files(st, ctx, category_dir, files_, i) ==
    IF i > Len(files_) THEN st
    ELSE relocate_files(relocate_file(st, ctx, category_dir, files_[i]), ctx, category_dir, files_, i + 1)

\* one subitem of a subdirectory merged into the existing item_dest
merge_subitem(st, ctx, subitem, item_dest) ==
    IF is_file(st.F, subitem)
    THEN moved(st, move_file_cross_device(st.D, st.F, ctx.M, subitem,
                                          merge_dest(st.D, st.F, item_dest, PathName(subitem)), "none"))
    ELSE Bind(PathJoin(item_dest, PathName(subitem)), LAMBDA subitem_dest :
         Bind(IF exists(st.D, st.F, subitem_dest) THEN [ok |-> TRUE, D |-> st.D, F |-> st.F]
              ELSE copytree(st.D, st.F, subitem, subitem_dest), LAMBDA c :
             IF c.ok THEN moved(st, rmtree(c.D, c.F, subitem)) ELSE [st EXCEPT !.ok = FALSE]))

RECURSIVE merge_items(_, _, _, _, _, _)
\* one item of a junk directory merged into the existing dest_path
merge_item(st, ctx, item, dest_path) ==
    IF is_file(st.F, item)
    THEN moved(st, move_file_cross_device(st.D, st.F, ctx.M, item,
                                          merge_dest(st.D, st.F, dest_path, PathName(item)), "none"))
    ELSE IF ~is_dir(st.D, item) THEN st
    ELSE Bind(PathJoin(dest_path, PathName(item)), LAMBDA item_dest :
         IF exists(st.D, st.F, item_dest)
         THEN merge_items(st, ctx, Listing(iterdir(st.D, st.F, item), ctx.listing), 1, item_dest, 2)
         ELSE Bind(rename_dir(st.D, st.F, ctx.M, item, item_dest), LAMBDA r :
                  IF r.ok THEN moved(st, r) ELSE [st EXCEPT !.ok = FALSE]))

\* the loops over the items (level 1) and the subitems (level 2) of a merge, from items[i];
\* an exception leaves them
merge_items(st, ctx, items, i, dest, level) ==
    IF i > Len(items) \/ ~st.ok THEN st
    ELSE merge_items(IF level = 1 THEN merge_item(st, ctx, items[i], dest)
                     ELSE merge_subitem(st, ctx, items[i], dest),
                     ctx, items, i + 1, dest, level)

\* the junk directory relocation of one directory of the listing
relocate_dir(st, ctx, category_dir, dir_path) ==
    IF in_unorganized(ctx, dir_path) \/ ~matches_pattern(PathName(dir_path), UnorganizedDirPatterns)
    THEN st
    ELSE Bind(unorganized_dest(category_dir, dir_path), LAMBDA dest_path :
         IF ~mkdir_ok(st.F, PathParent(dest_path)) THEN st
         ELSE Bind(mkdir_p(st.D, PathParent(dest_path)), LAMBDA D1 :
              IF exists(D1, st.F, dest_path)
              THEN IF dir_path \notin D1 THEN [st EXCEPT !.D = D1]
                   ELSE Bind(merge_items([st EXCEPT !.D = D1], ctx,
                                         Listing(iterdir(D1, st.F, dir_path), ctx.listing), 1, dest_path, 1),
                             LAMBDA m :
                        IF ~m.ok THEN [m EXCEPT !.ok = TRUE]
                        ELSE [m EXCEPT !.D = IF rmdir_ok(m.D, m.F, dir_path, {}) THEN @ \ {dir_path} ELSE @,
                                       !.stats.dirs_moved_to_unorganized = @ + 1])
              ELSE Bind(rename_dir(D1, st.F, ctx.M, dir_path, dest_path), LAMBDA r :
                   IF r.ok THEN [moved(st, r) EXCEPT !.stats.dirs_moved_to_unorganized = @ + 1]
                   ELSE Bind(copytree(D1, st.F, dir_path, dest_path), LAMBDA c :
                        IF c.ok THEN [moved(st, rmtree(c.D, c.F, dir_path))
                                          EXCEPT !.stats.dirs_moved_to_unorganized = @ + 1]
                        ELSE [st EXCEPT !.D = D1]))))

RECURSIVE relocate_dirs(_, _, _, _, _)
relocate_dirs(st, ctx, category_dir, dirs_, i) ==
    IF i > Len(dirs_) THEN st
    ELSE relocate_dirs(relocate_dir(st, ctx, category_dir, dirs_[i]), ctx, category_dir, dirs_, i + 1)

\* the body of the os.walk loop for root_path with the directories and files os.walk
\* listed in it
visit(st, ctx, root_path, dirs_, files_) ==
    IF in_unorganized(ctx, root_path) \/ ~\E c \in ctx.cats : IsUnder(root_path, c) THEN st
    ELSE Bind(CHOOSE c \in ctx.cats : IsUnder(root_path, c), LAMBDA category_dir :
         Bind(relocate_dirs(relocate_files(st, ctx, category_dir, files_, 1),
                            ctx, category_dir, dirs_, 1), LAMBDA st2 :
             IF /\ root_path # ctx.output_dir /\ root_path \notin ctx.cats
                /\ rmdir_ok(st2.D, st2.F, root_path, {})
             THEN [st2 EXCEPT !.D = @ \ {root_path}, !.stats.empty_dirs_removed = @ + 1]
             ELSE st2))

\* os.walk(top, topdown=False) with the loop body: a directory is listed when the walk
\* comes to it, and visited after the directories listed in it
RECURSIVE os_walk(_, _, _)
RECURSIVE walk_dirs(_, _, _, _)
os_walk(st, ctx, top) ==
    IF top \notin st.D THEN st
    ELSE Bind(Listing({q \in iterdir(st.D, st.F, top) : q \in st.D}, ctx.listing), LAMBDA dirs_ :
         Bind(Listing({q \in iterdir(st.D, st.F, top) : q \in DOMAIN st.F}, ctx.listing), LAMBDA files_ :
             visit(walk_dirs(st, ctx, dirs_, 1), ctx, top, dirs_, files_)))

walk_dirs(st, ctx, dirs_, i) ==
    IF i > Len(dirs_) THEN st
    ELSE walk_dirs(os_walk(st, ctx, dirs_[i]), ctx, dirs_, i + 1)

\* FileOrganizer._cleanup_output_directory: [D, F, raised, stats], stats the dictionary
\* it returns
cleanup_output_directory(D, F, M, output_dir, listing) ==
    IF ~exists(D, F, output_dir) THEN [D |-> D, F |-> F, raised |-> FALSE, stats |-> NoStats]
    ELSE Bind(make_unorganized_dirs([D |-> D, cats |-> {}, raised |-> FALSE], F, output_dir, 1), LAMBDA su :
         IF su.raised THEN [D |-> su.D, F |-> F, raised |-> TRUE, stats |-> NoStats]
         ELSE Bind(os_walk([D |-> su.D, F |-> F, ok |-> TRUE, stats |-> NoStats],
                           [output_dir |-> output_dir, cats |-> su.cats, M |-> M, listing |-> listing],
                           output_dir), LAMBDA st :
                  [D |-> st.D, F |-> st.F, raised |-> FALSE, stats |-> st.stats]))

MaxPasses == 2

Name_Thumbs == <<"T", "h", "u", "m", "b", "s", ".", "d", "b">>
Dir_git == <<".", "g", "i", "t">>

Dir_movies == <<Dir_out, Str_movies>>
Dir_quarantine == unorganized_of(Dir_movies)

\* what a library can hold under out/movies: junk in the category directory, and what
\* earlier passes moved to its unorganized_files directory
OutputDirs ==
    { Dir_movies, Dir_quarantine,
      Dir_movies \o <<Dir_git>>, Dir_quarantine \o <<Dir_git>>,
      Dir_movies \o <<Dir_git, Dir_clips>>, Dir_quarantine \o <<Dir_git, Dir_clips>>,
      Dir_movies \o <<Dir_git, Dir_clips, Dir_a1x>>, Dir_quarantine \o <<Dir_git, Dir_clips, Dir_a1x>> }

OutputFiles ==
    (Dir_movies \o <<Name_Thumbs>> :> Data(1, 1)) @@
    (Dir_quarantine \o <<Name_Thumbs>> :> Data(2, 1)) @@
    (Dir_movies \o <<Dir_git, Name_vid_nfo>> :> Data(3, 1)) @@
    (Dir_quarantine \o <<Dir_git, Name_vid_nfo>> :> Data(4, 1)) @@
    (Dir_movies \o <<Dir_git, Dir_clips, Name_vid_srt>> :> Data(5, 1)) @@
    (Dir_movies \o <<Dir_git, Dir_clips, Dir_a1x, Name_vid>> :> Data(6, 1)) @@
    (Dir_quarantine \o <<Dir_git, Dir_clips, Dir_a1x, Name_Up>> :> Data(7, 1)) @@
    (Dir_movies \o <<Name_Up>> :> Data(8, 700))

\* the orders in which the file system lists these names
Listings ==
    { <<Name_Thumbs, Name_Up, Name_vid_nfo, Name_vid_srt, Name_vid, Dir_git, Dir_clips, Dir_a1x,
        Str_unorganized_files, Str_movies>>,
      <<Str_unorganized_files, Dir_a1x, Dir_clips, Dir_git, Name_vid, Name_vid_srt, Name_vid_nfo,
        Name_Up, Name_Thumbs, Str_movies>> }

\* any tree of them under out
InitOutput ==
    /\ \E X \in SUBSET OutputDirs :
          /\ \A d \in X : Len(d) > 2 => PathParent(d) \in X
          /\ dirs = {<< >>, RootPath, <<Dir_out>>} \cup X
    /\ \E Y \in SUBSET DOMAIN OutputFiles :
          /\ \A f \in Y : PathParent(f) \in dirs
          /\ files = [f \in Y |-> OutputFiles[f]]
    /\ cfg = CHOOSE c \in Configs : c.organize_by = "type" /\ c.output_directories = NoCategoryDirs
    /\ mounts \in {{}, {Dir_quarantine}}
    /\ srcdirs = {}
    /\ plans = {}
    /\ last = NoCall
    /\ calls = 0
    /\ org = OrgIdle
    /\ hist = {}
    /\ loaded = << >>
    /\ conc = NoConc

\* _cleanup_output_directory(output_dir) on a file system that lists names in the order listing
CleanupOutputDirectory(listing) ==
    /\ calls < MaxPasses
    /\ \E r \in {cleanup_output_directory(dirs, files, mounts, cfg.output_directory, listing)} :
          /\ dirs' = r.D
          /\ files' = r.F
          /\ last' = [NoCall EXCEPT !.op = "cleanup_output", !.arg = cfg.output_directory,
                                    !.raised = r.raised, !.preD = dirs, !.preF = files,
                                    !.preSrc = srcdirs, !.stats = r.stats, !.pass = calls + 1]
    /\ calls' = calls + 1
    /\ UNCHANGED <<cfg, srcdirs, plans, org, mounts, hist, loaded, conc>>

NextOutput == \E listing \in Listings : CleanupOutputDirectory(listing)

SpecOutput == InitOutput /\ [][NextOutput]_vars

\* the contents of the regular files of F under root
ContentsUnder(F, root) == {F[p].id : p \in {q \in DOMAIN F : IsUnder(q, root)}}

\* C3: after a pass of _cleanup_output_directory the content of every regular file that
\* was under the root before the pass is still in a regular file under the root
C3_ContentSurvivesPass ==
    last.op = "cleanup_output" =>
        ContentsUnder(last.preF, last.arg) \subseteq ContentsUnder(files, last.arg)

\* C11: a pass of _cleanup_output_directory that follows another pass on the same root,
\* with nothing else done to the file system in between, changes no file and no directory
\* and returns its three counters equal to 0
C11_SecondPassChangesNothing ==
    (last.op = "cleanup_output" /\ last.pass = 2) =>
        /\ dirs = last.preD
        /\ files = last.preF
        /\ last.stats = NoStats

\* the category directories of root there are in D, and their unorganized_files directories
CategoryDirsIn(D, root) ==
    {PathJoin(root, CategoryFolders[i]) : i \in 1..Len(CategoryFolders)} \cap D

QuarantineDirsIn(D, root) == {unorganized_of(c) : c \in CategoryDirsIn(D, root)}

\* C26: a pass of _cleanup_output_directory leaves the root, the category directories and
\* their unorganized_files directories in place, empty or not, and takes nothing that is
\* inside an unorganized_files directory away from its path: the directories and the
\* regular files there before the pass are at their paths after it
C26_QuarantineIsLeftAlone ==
    last.op = "cleanup_output" =>
        /\ last.arg \in dirs
        /\ CategoryDirsIn(last.preD, last.arg) \subseteq dirs
        /\ ~last.raised => QuarantineDirsIn(last.preD, last.arg) \subseteq dirs
        /\ \A q \in QuarantineDirsIn(last.preD, last.arg) :
              /\ \A d \in last.preD : IsUnder(d, q) => d \in dirs
              /\ \A f \in DOMAIN last.preF : IsUnder(f, q) => f \in DOMAIN files

\* a pass that removed an empty directory began with an empty unorganized_files directory
\* that holds nothing after it either
C26_Witness ==
    /\ last.op = "cleanup_output" /\ last.stats.empty_dirs_removed > 0
    /\ Dir_quarantine \in last.preD
    /\ iterdir(last.preD, last.preF, Dir_quarantine) = {}
    /\ iterdir(dirs, files, Dir_quarantine) = {}

----------------------------------------------------------------------------
(* Moving one file                                                         *)

MaxMoves == 2

\* two directory trees, lib on a device of its own or not
MoveDirs == { <<Dir_lib>>, <<Dir_lib, Dir_a1x>> }

MoveFiles ==
    (<<Dir_in, Name_vid>> :> Data(1, 1)) @@
    (<<Dir_in, Name_vid_srt>> :> Data(2, 1)) @@
    (<<Dir_lib, Name_vid>> :> Data(3, 1)) @@
    (<<Dir_lib, Dir_a1x, Name_vid>> :> Data(4, 1))

\* the arguments of the calls: a destination that is free, taken by a file, a directory,
\* in a directory to be made, and under a regular file
MoveSources == { <<Dir_in, Name_vid>>, <<Dir_in, Name_vid_srt>>, <<Dir_lib, Name_vid>> }

MoveDestinations ==
    { <<Dir_lib, Name_vid>>, <<Dir_lib, Dir_a1x>>, <<Dir_lib, Dir_b2x, Name_vid>>,
      <<Dir_in, Name_vid_srt>>, <<Dir_in, Name_vid, Name_vid_srt>> }

InitMove ==
    /\ \E X \in SUBSET MoveDirs :
          /\ \A d \in X : Len(d) > 1 => PathParent(d) \in X
          /\ dirs = {<< >>, RootPath, <<Dir_in>>} \cup X
    /\ \E Y \in SUBSET DOMAIN MoveFiles :
          /\ \A f \in Y : PathParent(f) \in dirs
          /\ files = [f \in Y |-> MoveFiles[f]]
    /\ mounts \in {{}, {<<Dir_lib>>}}
    /\ mounts \subseteq dirs
    /\ cfg = CHOOSE c \in Configs : c.organize_by = "type" /\ c.output_directories = NoCategoryDirs
    /\ srcdirs = {}
    /\ plans = {}
    /\ last = NoCall
    /\ calls = 0
    /\ org = OrgIdle
    /\ hist = {}
    /\ loaded = << >>
    /\ conc = NoConc

\* move_file_cross_device(source, destination), the operating system refusing the step fault
MoveFileCrossDevice(source, destination, fault) ==
    /\ calls < MaxMoves
    /\ \E r \in {move_file_cross_device(dirs, files, mounts, source, destination, fault)} :
          /\ dirs' = r.D
          /\ files' = r.F
          /\ last' = [NoCall EXCEPT !.op = "move", !.arg = source, !.dest = destination,
                                    !.ret = r.ok, !.preD = dirs, !.preF = files]
    /\ calls' = calls + 1
    /\ UNCHANGED <<cfg, srcdirs, plans, org, mounts, hist, loaded, conc>>

NextMove ==
    \E source \in MoveSources, destination \in MoveDestinations, fault \in Faults :
        MoveFileCrossDevice(source, destination, fault)

SpecMove == InitMove /\ [][NextMove]_vars

\* a call of move_file_cross_device on a regular file, with source # destination
MoveCall == last.op = "move" /\ last.arg # last.dest /\ last.arg \in DOMAIN last.preF

\* C12: a call that returns True leaves the content of the source at the destination
\* and nothing at the source path; a call that returns False leaves the source file in
\* place with its content
C12_AllOrNothing ==
    MoveCall =>
        IF last.ret
        THEN /\ last.dest \in DOMAIN files
             /\ files[last.dest] = last.preF[last.arg]
             /\ ~exists(dirs, files, last.arg)
        ELSE /\ last.arg \in DOMAIN files
             /\ files[last.arg] = last.preF[last.arg]

----------------------------------------------------------------------------
(* Plan files (PlanManager)                                                *)

\* str(path) of a PurePosixPath
path_str(p) ==
    IF p = << >> THEN <<".">>
    ELSE IF p[1] = <<"/">> THEN <<"/">> \o join(<<"/">>, Tail(p))
    ELSE join(<<"/">>, p)

\* the parts of s[p..] between slashes, empty parts and "." left out
RECURSIVE path_parts(_, _)
path_parts(s, p) ==
    IF p > Len(s) THEN << >>
    ELSE IF s[p] = "/" THEN path_parts(s, p + 1)
    ELSE Bind(RunEnd(s, p, {s[i] : i \in 1..Len(s)} \ {"/"}), LAMBDA q :
         (IF Slice(s, p, q) = <<".">> THEN << >> ELSE <<Slice(s, p, q)>>) \o path_parts(s, q + 1))

\* Path(s)
Path(s) == (IF s # << >> /\ s[1] = "/" THEN RootPath ELSE << >>) \o path_parts(s, 1)

\* the output_file the plans are saved to
PlanFile == << <<"p", "l", "a", "n", ".", "j", "s", "o", "n">> >>

\* plan_entry of save_organization_plan for one plan
plan_entry(plan) ==
    [from |-> path_str(plan.file),
     to |-> path_str(plan.to),
     media_type |-> plan.media_type,
     changed |-> plan.changed,
     associated |-> [i \in 1..Len(plan.associated) |->
                       [from |-> path_str(plan.associated[i].from),
                        to |-> path_str(plan.associated[i].to)]]]

\* PlanManager.save_organization_plan(plans, output_file, ...): [F, ret]; the document
\* json.dump writes is the content of the file (strings, booleans and lists come back
\* from json.load as they went in), held as the one entry of the file
save_organization_plan(D, F, plans_, output_file, fault) ==
    IF fault = "write" \/ output_file \in D \/ PathParent(output_file) \notin D
    THEN [F |-> F, ret |-> FALSE]
    ELSE [F |-> PutFile(F, output_file,
                        [id |-> 0, size |-> 0,
                         entries |-> {[type |-> "file_organization",
                                       plans |-> [i \in 1..Len(plans_) |-> plan_entry(plans_[i])]]}]),
          ret |-> TRUE]

\* the plan load_organization_plan builds from one entry of the document
loaded_plan(e) ==
    [from |-> Path(e.from),
     to |-> Path(e.to),
     media_type |-> e.media_type,
     changed |-> e.changed,
     associated |-> [i \in 1..Len(e.associated) |->
                       [from |-> Path(e.associated[i].from), to |-> Path(e.associated[i].to)]]]

\* PlanManager.load_organization_plan(plan_file): [ok, plans], ok FALSE when it returns None
load_organization_plan(D, F, plan_file) ==
    IF plan_file \notin DOMAIN F THEN [ok |-> FALSE, plans |-> << >>]
    ELSE IF F[plan_file].entries = {} THEN [ok |-> FALSE, plans |-> << >>]
    ELSE Bind(CHOOSE d \in F[plan_file].entries : TRUE, LAMBDA plan_data :
         IF plan_data.type # "file_organization" THEN [ok |-> FALSE, plans |-> << >>]
         ELSE [ok |-> TRUE, plans |-> [i \in 1..Len(plan_data.plans) |-> loaded_plan(plan_data.plans[i])]])

\* FileOrganizer.execute_move on a plan that load_organization_plan returned: the keys
\* file, is_recognized and target_dir are not in it.  move_plan['file'] raises KeyError,
\* which the handler of execute_move turns into False; move_plan.get('is_recognized', True)
\* is True
execute_move_loaded(D, F, SD, M, move_plan, dry_run, failAt, fault) ==
    IF dry_run THEN [D |-> D, F |-> F, srcdirs |-> SD, ret |-> TRUE, log |-> << >>]
    ELSE IF move_plan.changed THEN [D |-> D, F |-> F, srcdirs |-> SD, ret |-> FALSE, log |-> << >>]
    ELSE execute_move_real(D, F, SD, M,
                           [file |-> move_plan.from, to |-> move_plan.to,
                            associated |-> move_plan.associated, changed |-> FALSE,
                            media_type |-> move_plan.media_type, is_recognized |-> TRUE,
                            target_dir |-> << >>],
                           failAt, fault)

\* save_organization_plan on the plans the caller holds, in the order it holds them
SaveOrganizationPlan(order, fault) ==
    /\ calls < MaxCalls
    /\ \E r \in {save_organization_plan(dirs, files, order, PlanFile, fault)} :
          /\ files' = r.F
          /\ last' = [NoCall EXCEPT !.op = "save", !.arg = PlanFile, !.ret = r.ret, !.fault = fault,
                                    !.preD = dirs, !.preF = files, !.preSrc = srcdirs]
    /\ calls' = calls + 1
    /\ UNCHANGED <<dirs, cfg, srcdirs, plans, org, mounts, hist, loaded, conc>>

\* load_organization_plan on the saved file
LoadOrganizationPlan ==
    /\ calls < MaxCalls
    /\ \E r \in {load_organization_plan(dirs, files, PlanFile)} :
          /\ loaded' = IF r.ok THEN r.plans ELSE loaded
          /\ last' = [NoCall EXCEPT !.op = "load", !.arg = PlanFile, !.ret = r.ok,
                                    !.preD = dirs, !.preF = files, !.preSrc = srcdirs]
    /\ calls' = calls + 1
    /\ UNCHANGED <<dirs, files, cfg, srcdirs, plans, org, mounts, hist, conc>>

\* execute_move(plan, dry_run) on the k-th loaded plan
ExecuteLoaded(k, dry_run, failAt, fault) ==
    /\ calls < MaxCalls
    /\ \E r \in {execute_move_loaded(dirs, files, srcdirs, mounts, loaded[k], dry_run, failAt, fault)} :
          /\ dirs' = r.D
          /\ files' = r.F
          /\ srcdirs' = r.srcdirs
          /\ last' = [NoCall EXCEPT !.op = "execute_loaded", !.arg = loaded[k].from,
                                    !.dest = loaded[k].to, !.dry = dry_run, !.ret = r.ret,
                                    !.log = r.log, !.failAt = failAt, !.fault = fault,
                                    !.preD = dirs, !.preF = files, !.preSrc = srcdirs]
    /\ calls' = calls + 1
    /\ UNCHANGED <<cfg, plans, org, mounts, hist, loaded, conc>>

NextPlanFile ==
    \/ \E f \in {p \in DOMAIN files : is_media_file(cfg, p)} : PlanFileMove(f, "none")
    \/ \E order \in Orderings(plans), fault \in {"none", "write"} :
          plans # {} /\ SaveOrganizationPlan(order, fault)
    \/ LoadOrganizationPlan
    \/ \E k \in 1..Len(loaded), dry_run \in BOOLEAN, fault \in {"none", "rename"} :
          \E failAt \in (IF fault = "none" THEN {0} ELSE 1..(1 + Len(loaded[k].associated))) :
              ExecuteLoaded(k, dry_run, failAt, fault)

SpecPlanFile == Init /\ [][NextPlanFile]_vars

\* the loaded plan lp has every field of the plan q, with the same value
SamePlan(lp, q) ==
    /\ {"from", "to", "associated", "changed", "media_type", "is_recognized", "target_dir"}
           \subseteq DOMAIN lp
    /\ lp.from = q.file
    /\ lp.to = q.to
    /\ lp.associated = q.associated
    /\ lp.changed = q.changed
    /\ lp.media_type = q.media_type
    /\ lp.is_recognized = q.is_recognized
    /\ lp.target_dir = q.target_dir

\* the last call, an execute_move on a loaded plan, did what execute_move does on the plan q
SameEffect(q) ==
    \E r \in {execute_move(last.preD, last.preF, last.preSrc, mounts, q, last.dry, last.failAt, last.fault)} :
        /\ dirs = r.D
        /\ files = r.F
        /\ srcdirs = r.srcdirs
        /\ last.ret = r.ret

\* C13: every plan load_organization_plan returns has the source, destination, associated
\* moves, changed flag, media type, recognized flag and target directory of a plan that
\* was saved, and executing it has the effect of executing that plan
C13_LoadedPlanIsSavedPlan ==
    /\ \A k \in 1..Len(loaded) : \E q \in plans : SamePlan(loaded[k], q)
    /\ last.op = "execute_loaded" =>
           \E q \in plans : q.file = last.arg /\ q.to = last.dest /\ SameEffect(q)

\* what the document does keep: source, destination, associated moves, changed flag and
\* media type of every saved plan come back as they were saved
C13_SavedFieldsComeBack ==
    \A k \in 1..Len(loaded) : \E q \in plans :
        /\ loaded[k].from = q.file
        /\ loaded[k].to = q.to
        /\ loaded[k].associated = q.associated
        /\ loaded[k].changed = q.changed
        /\ loaded[k].media_type = q.media_type

----------------------------------------------------------------------------
(* Two execute_move calls at once                                          *)

\* a thread in execute_move(plan, dry_run=False) before its first file system call: pc
\* the call it makes next, i the move it is at, data what copy2 has read, file_exists and
\* has the results of mapping_file.exists() and hasattr(self, '_source_directories')
thread_of(plan) ==
    [plan |-> plan, moves |-> PlanMoves(plan), i |-> 1, ret |-> FALSE,
     pc |-> IF PlanMoves(plan) = << >> THEN "track" ELSE "mkdir",
     data |-> PartialContent, file_exists |-> FALSE, has |-> FALSE]

\* an exception reaches the handler of execute_move: it returns False
conc_raise(st, t) == [st |-> st, t |-> [t EXCEPT !.pc = "done", !.ret = FALSE]]

\* move_file_cross_device returned True for move i: the next move, or what follows the moves
conc_moved(st, t) ==
    [st |-> st,
     t |-> IF t.i < Len(t.moves) THEN [t EXCEPT !.i = @ + 1, !.pc = "mkdir"]
           ELSE IF ~t.plan.is_recognized THEN [t EXCEPT !.pc = "exists"]
           ELSE [t EXCEPT !.pc = "track"]]

\* the file shutil.copy2(source, destination) writes
copy_target(st, t) ==
    IF t.moves[t.i].to \in st.D THEN PathJoin(t.moves[t.i].to, PathName(t.moves[t.i].from))
    ELSE t.moves[t.i].to

\* source.rename(destination) of move i
conc_rename(st, M, t) ==
    Bind(t.moves[t.i].from, LAMBDA source :
    Bind(t.moves[t.i].to, LAMBDA destination :
        IF ~exists(st.D, st.F, source) THEN conc_raise(st, t)
        ELSE IF source \in DOMAIN st.F /\ DeviceOf(M, source) # DeviceOf(M, PathParent(destination))
        THEN [st |-> st, t |-> [t EXCEPT !.pc = "copy_open"]]
        ELSE Bind(posix_rename(st.D, st.F, source, destination), LAMBDA r :
             IF r.ok /\ DeviceOf(M, source) = DeviceOf(M, PathParent(destination))
             THEN conc_moved([st EXCEPT !.D = r.D, !.F = r.F], t)
             ELSE conc_raise(st, t))))

\* the calls of execute_move other than the rename, one file system call (or one access
\* to self._source_directories) at a time
conc_other(st, M, t) ==
    Bind(t.moves[IF t.moves = << >> THEN 1 ELSE t.i], LAMBDA move :
    Bind(PathParent(t.plan.file), LAMBDA source_dir :
    Bind(PathJoin(t.plan.target_dir, Str_original_structure), LAMBDA mapping_file :
        CASE t.pc = "mkdir" ->
                 IF ~mkdir_ok(st.F, PathParent(move.to)) THEN conc_raise(st, t)
                 ELSE [st |-> [st EXCEPT !.D = mkdir_p(@, PathParent(move.to))],
                       t |-> [t EXCEPT !.pc = "rename"]]
          [] t.pc = "copy_open" ->
                 IF move.from \notin DOMAIN st.F \/ copy_target(st, t) \in st.D
                    \/ copy_target(st, t) = move.from \/ PathParent(copy_target(st, t)) \notin st.D
                 THEN conc_raise(st, t)
                 ELSE [st |-> [st EXCEPT !.F = PutFile(@, copy_target(st, t), PartialContent)],
                       t |-> [t EXCEPT !.pc = "copy_write", !.data = st.F[move.from]]]
          [] t.pc = "copy_write" ->
                 \* the data goes to the file that was opened, if it is still at its path
                 [st |-> IF copy_target(st, t) \in DOMAIN st.F
                         THEN [st EXCEPT !.F = PutFile(@, copy_target(st, t), t.data)] ELSE st,
                  t |-> [t EXCEPT !.pc = "unlink"]]
          [] t.pc = "unlink" ->
                 IF move.from \notin DOMAIN st.F THEN conc_raise(st, t)
                 ELSE conc_moved([st EXCEPT !.F = RemoveFile(@, move.from)], t)
          [] t.pc = "exists" ->
                 [st |-> st, t |-> [t EXCEPT !.pc = "append", !.file_exists = exists(st.D, st.F, mapping_file)]]
          [] t.pc = "append" ->
                 [st |-> [st EXCEPT !.F = save_original_structure(st.D, @, t.plan.target_dir,
                                                                  {t.moves[j] : j \in 1..Len(t.moves)})],
                  t |-> [t EXCEPT !.pc = "track"]]
          [] t.pc = "track" ->
                 IF t.plan.changed /\ source_dir # PathParent(t.plan.to) /\ source_dir \in st.D
                 THEN [st |-> st, t |-> [t EXCEPT !.pc = "hasattr"]]
                 ELSE [st |-> st, t |-> [t EXCEPT !.pc = "done", !.ret = TRUE]]
          [] t.pc = "hasattr" ->
                 [st |-> st, t |-> [t EXCEPT !.pc = IF st.attr THEN "add" ELSE "newset", !.has = st.attr]]
          [] t.pc = "newset" ->
                 [st |-> [st EXCEPT !.SD = {}, !.attr = TRUE], t |-> [t EXCEPT !.pc = "add"]]
          [] t.pc = "add" ->
                 [st |-> [st EXCEPT !.SD = @ \cup {source_dir}], t |-> [t EXCEPT !.pc = "done", !.ret = TRUE]]
          [] OTHER -> [st |-> st, t |-> t])))

\* a move that goes through one temporary path all calls share, in place of the rename
conc_step_shared_tmp(st, M, t) ==
    LET tmp == <<Dir_in, <<".", "t", "m", "p">>>>
    IN  IF t.pc = "rename"
        THEN Bind(posix_rename(st.D, st.F, t.moves[t.i].from, tmp), LAMBDA r :
             IF r.ok THEN [st |-> [st EXCEPT !.D = r.D, !.F = r.F], t |-> [t EXCEPT !.pc = "rename_tmp"]]
             ELSE conc_raise(st, t))
        ELSE IF t.pc = "rename_tmp"
        THEN Bind(posix_rename(st.D, st.F, tmp, t.moves[t.i].to), LAMBDA r :
             IF r.ok THEN conc_moved([st EXCEPT !.D = r.D, !.F = r.F], t) ELSE conc_raise(st, t))
        ELSE conc_other(st, M, t)

\* the next call of a thread in execute_move: [st, t], st = [D, F, SD, attr] the file
\* system and self._source_directories (attr: the attribute is set)
conc_step(st, M, t) ==
    IF t.pc = "rename" THEN conc_rename(st, M, t) ELSE conc_other(st, M, t)

\* two plans made one after the other by plan_file_move, and a thread for each
InitConcurrent ==
    /\ cfg \in Configs
    /\ mounts \in {{}, {<<Dir_out>>}}
    /\ files = SourceFiles
    /\ \E f1, f2 \in {p \in DOMAIN SourceFiles : is_media_file(cfg, p)} :
       \E c1 \in {plan_call(cfg, SourceDirs, SourceFiles, f1, "none")} :
       \E o1 \in Orderings(find_associated_files(c1.D, SourceFiles, f1)) :
       \E c2 \in {plan_call(cfg, c1.D, SourceFiles, f2, "none")} :
       \E o2 \in Orderings(find_associated_files(c2.D, SourceFiles, f2)) :
       \E p1 \in {plan_file_move(cfg, f1, c1.target_dir, o1)} :
       \E p2 \in {plan_file_move(cfg, f2, c2.target_dir, o2)} :
          /\ f1 # f2
          /\ dirs = c2.D
          /\ plans = {p1, p2}
          /\ conc = [t |-> <<thread_of(p1), thread_of(p2)>>, attr |-> FALSE, mixed |-> FALSE,
                     D0 |-> c2.D, F0 |-> SourceFiles]
    /\ srcdirs = {}
    /\ last = NoCall
    /\ calls = 0
    /\ org = OrgIdle
    /\ hist = {}
    /\ loaded = << >>

\* thread k makes its next call
ThreadStep(k) ==
    /\ conc.t[k].pc # "done"
    /\ \E r \in {conc_step([D |-> dirs, F |-> files, SD |-> srcdirs, attr |-> conc.attr], mounts, conc.t[k])} :
          /\ dirs' = r.st.D
          /\ files' = r.st.F
          /\ srcdirs' = r.st.SD
          /\ conc' = [conc EXCEPT !.t[k] = r.t, !.attr = r.st.attr,
                                  \* the other thread is between two of its calls
                                  !.mixed = @ \/ (conc.t[3 - k].pc # "done"
                                                    /\ conc.t[3 - k] # thread_of(conc.t[3 - k].plan))]
    /\ UNCHANGED <<cfg, plans, last, calls, org, mounts, hist, loaded>>

NextConcurrent == \E k \in {1, 2} : ThreadStep(k)

SpecConcurrent == InitConcurrent /\ [][NextConcurrent]_vars

\* the moves of both plans
ConcMoves == UNION {{conc.t[k].moves[j] : j \in 1..Len(conc.t[k].moves)} : k \in {1, 2}}

BothDone == conc.t # << >> /\ \A k \in {1, 2} : conc.t[k].pc = "done"

\* the source and destination files of the two plans are pairwise distinct, the sources
\* are regular files and the directories of the destinations exist when the calls start
DistinctPlans ==
    /\ conc.t # << >>
    /\ Cardinality({m.from : m \in ConcMoves} \cup {m.to : m \in ConcMoves})
          = 2 * (Len(conc.t[1].moves) + Len(conc.t[2].moves))
    /\ \A m \in ConcMoves : m.from \in DOMAIN conc.F0 /\ PathParent(m.to) \in conc.D0

\* C14: two plans with pairwise distinct source and destination files whose destination
\* directories exist, executed at once: however their calls interleave no content is ever
\* lost, and when both calls have returned both returned True, every file is at its
\* planned destination and no other file has changed
C14_ConcurrentMovesSucceed ==
    DistinctPlans =>
        /\ Contents(conc.F0) \subseteq Contents(files)
        /\ BothDone =>
              /\ \A k \in {1, 2} : conc.t[k].ret
              /\ \A m \in ConcMoves :
                    /\ m.to \in DOMAIN files
                    /\ files[m.to] = conc.F0[m.from]
                    /\ m.from \notin DOMAIN files
              /\ \A p \in DOMAIN conc.F0 \ {m.from : m \in ConcMoves} :
                    p \in DOMAIN files /\ files[p] = conc.F0[p]

\* both calls have returned after their file system calls interleaved, each plan moving
\* files, one of them across devices
C14_Witness ==
    /\ DistinctPlans
    /\ BothDone
    /\ conc.mixed
    /\ mounts # {}
    /\ \A k \in {1, 2} : conc.t[k].moves # << >>

----------------------------------------------------------------------------
(* Planning one file: classification, naming and target directory          *)

\* generic_names of _preserve_unorganized_structure
GenericNames == {Str_downloads, Str_desktop, Str_documents, Str_videos, Str_pictures, Str_music}

\* the directories the planned file can lie in: in, in/a1x/b2x/clips, in/a1x/downloads,
\* in/downloads/a1x and in/a b
NamingDirs ==
    { <<Dir_in>>, <<Dir_in, Dir_a1x, Dir_b2x, Dir_clips>>, <<Dir_in, Dir_a1x, Str_downloads>>,
      <<Dir_in, Str_downloads, Dir_a1x>>, <<Dir_in, <<"a", " ", "b">>>> }

\* the names the planned file can have: episodes, movies with a year in its three notations
\* and in and out of the range of the bare notation, names without a pattern, music and
\* photos, and names that need cleaning
NamingNames ==
    { <<"U", "p", ".", "2", "0", "0", "9", ".", "m", "k", "v">>,
      <<"S", "h", "o", "w", ".", "S", "0", "1", "E", "0", "2", ".", "m", "k", "v">>,
      <<"-", " ", "S", "0", "1", "E", "0", "1", ".", "m", "k", "v">>,
      <<"u", "n", "o", "r", "g", "a", "n", "i", "z", "e", "d", ".", "S", "0", "1", "E", "0", "1", ".", "m", "k", "v">>,
      <<"[", "x", "]", ".", "S", "0", "1", "E", "0", "2", ".", "m", "k", "v">>,
      <<"s", "0", "1", "e", "0", "1", ".", "m", "k", "v">>,
      <<"v", "i", "d", ".", "m", "p", "4">>,
      <<"S", "o", "n", "g", ".", "m", "p", "3">>,
      <<"p", "i", "c", ".", "j", "p", "g">>,
      <<"a", "b", ".", "m", "k", "v">>,
      <<"c", "l", "i", "p", ".", "s", "a", "m", "p", "l", "e", ".", "m", "p", "4">>,
      <<"T", "r", "a", "i", "l", "e", "r", ".", "2", "0", "0", "1", ".", "m", "k", "v">>,
      <<"M", "o", "v", "i", "e", " ", "1", "9", "5", "0", ".", "m", "k", "v">>,
      <<"M", "o", "v", "i", "e", " ", "1", "9", "9", "9", ".", "m", "k", "v">>,
      <<"M", "o", "v", "i", "e", ".", "1", "9", "5", "0", ".", "m", "k", "v">>,
      <<"M", "o", "v", "i", "e", " ", "(", "1", "9", "9", "9", ")", ".", "m", "k", "v">>,
      <<"M", "o", "v", "i", "e", " ", "2", "0", "2", "9", ".", "m", "k", "v">>,
      <<"M", "o", "v", "i", "e", " ", "1", "9", "9", "9", ".", "m", "p", "3">>,
      <<"U", "p", ".", "2", "0", "0", "9", "1", ".", "m", "k", "v">>,
      <<"T", "h", "e", " ", "M", "a", "t", "r", "i", "x", " ", "(", "1", "9", "9", "9", ")", ".", "m", "k", "v">>,
      <<"M", "y", " ", "S", "h", "o", "w", " ", "-", " ", "S", "0", "1", "E", "0", "2", ".", "m", "k", "v">>,
      <<"A", "_", "b", ".", "2", "0", "0", "1", ".", "m", "k", "v">>,
      <<"M", "o", "v", "i", "e", "<", ">", "N", "a", "m", "e", "|", "2", "0", "2", "0", ".", "m", "k", "v">>,
      <<"M", "o", "v", "i", "e", "_", "_", "_", "N", "a", "m", "e", "_", "_", "_", "2", "0", "2", "0", ".", "m", "k", "v">>,
      <<"M", "o", "v", "i", "e", ".", ".", ".", "N", "a", "m", "e", ".", ".", ".", ".", "2", "0", "2", "0", ".", "m", "k", "v">>,
      <<"M", "o", "v", "i", "e", " ", " ", " ", "N", "a", "m", "e", " ", " ", " ", "2", "0", "2", "0", ".", "m", "k", "v">>,
      <<"{", "G", "r", "o", "u", "p", "}", " ", "M", "o", "v", "i", "e", " ", "N", "a", "m", "e", ".", "m", "k", "v">>,
      <<"[", "G", "r", "o", "u", "p", "]", " ", "M", "o", "v", "i", "e", " ", "N", "a", "m", "e", " ", "(", "2", "0", "2", "0", ")", ".", "m", "k", "v">> }

\* the library holds one media file, under any of the names in any of the directories
InitNaming ==
    /\ cfg \in Configs
    /\ \E d \in NamingDirs, n \in NamingNames :
          /\ dirs = {<< >>, RootPath} \cup Lineage(d)
          /\ files = (PathJoin(d, n) :> Data(1, 700))
    /\ mounts = {}
    /\ srcdirs = {}
    /\ plans = {}
    /\ last = NoCall
    /\ calls = 0
    /\ org = OrgIdle
    /\ hist = {}
    /\ loaded = << >>
    /\ conc = NoConc

\* _detect_media_type(f)
DetectMediaType(f) ==
    /\ last.op = "none"
    /\ \E detected \in {detect_media_type(cfg, PathName(f))} :
          last' = [NoCall EXCEPT !.op = "detect", !.arg = f,
                                 !.plan = [NoPlan EXCEPT !.media_type = detected[1],
                                                         !.is_recognized = detected[2]]]
    /\ UNCHANGED <<dirs, files, cfg, srcdirs, plans, calls, org, mounts, hist, loaded, conc>>

\* extract_pattern_info(f.name) and generate_new_filename(f, info) as plan_file_move calls
\* them, then extract_pattern_info on the name they gave
ExtractFromNewName(f) ==
    /\ last.op = "none"
    /\ \E info \in {extract_pattern_info(PathName(f))} :
       \E new_name \in {generate_new_filename(PathName(f), info)} :
          last' = [NoCall EXCEPT !.op = "rename", !.arg = f, !.info = info, !.out = new_name,
                                 !.back = extract_pattern_info(new_name)]
    /\ UNCHANGED <<dirs, files, cfg, srcdirs, plans, calls, org, mounts, hist, loaded, conc>>

\* sanitize_filename(f.stem), as generate_new_filename calls it
SanitizeFilename(f) ==
    /\ last.op = "none"
    /\ last' = [NoCall EXCEPT !.op = "sanitize", !.arg = f,
                              !.out = sanitize_filename(stem(PathName(f)))]
    /\ UNCHANGED <<dirs, files, cfg, srcdirs, plans, calls, org, mounts, hist, loaded, conc>>

NextNaming ==
    \/ \E f \in {p \in DOMAIN files : is_media_file(cfg, p)} : PlanFileMove(f, "none")
    \/ \E f \in {p \in DOMAIN files : is_media_file(cfg, p)} : DetectMediaType(f)
    \/ \E f \in {p \in DOMAIN files : is_media_file(cfg, p)} : ExtractFromNewName(f)
    \/ \E f \in {p \in DOMAIN files : is_media_file(cfg, p)} : SanitizeFilename(f)

SpecNaming == InitNaming /\ [][NextNaming]_vars

\* the root of a media type: its per-category directory when one is configured, the
\* directory of the type under the output directory otherwise
category_root(c, media_type) ==
    IF c.output_directories[media_type] # << >>
    THEN c.output_directories[media_type]
    ELSE PathJoin(c.output_directory, media_type)

\* plan_file_move returned a plan under organize_by = type
TypePlanCall == last.op = "plan" /\ ~last.raised /\ cfg.organize_by = "type"

\* C15: with organize_by = type the destination of every plan agrees with its recognized
\* flag: an unrecognized file goes to <category root>/unorganized or beneath it; a
\* recognized one goes to its canonical place (the category root for movies, <category
\* root>/<sanitized show name>/Season <season digits> for tv_shows) and never into the
\* unorganized subtree
C15_DestinationAgreesWithRecognized ==
    TypePlanCall =>
        LET plan == last.plan
            root == category_root(cfg, plan.media_type)
            info == extract_pattern_info(PathName(last.arg))
            show == PathJoin(root, SpacesToDots(sanitize_filename(info.title)))
        IN  IF ~plan.is_recognized
            THEN IsUnder(plan.target_dir, PathJoin(root, Str_unorganized))
            ELSE /\ ~IsUnder(plan.target_dir, PathJoin(root, Str_unorganized))
                 /\ plan.media_type = Str_movies => plan.target_dir = root
                 /\ plan.media_type = Str_tv_shows =>
                       plan.target_dir = PathJoin(show, Str_Season \o info.season)

\* the directory the claim gives an unrecognized file: <category root>/unorganized, then
\* those of the last two segments of the parent of file_path that are longer than 2
\* characters and not generic names, sanitized as the code sanitizes a segment
last_two_segments_directory(c, media_type, file_path) ==
    LET parent == PathParent(file_path)
        last2 == Slice(parent, SetMax({1, Len(parent) - 1}), Len(parent))
        generic == IF is_category_specific(c, config_base_dir(c, media_type))
                   THEN CategoryGenericNames(media_type) ELSE GenericNames
        keep(part) == Len(part) > 2 /\ str_lower(part) \notin generic
        kept == SelectSeq(last2, keep)
    IN  JoinAll(PathJoin(category_root(c, media_type), Str_unorganized),
                [i \in 1..Len(kept) |-> ReplaceSpaces(sanitize_filename(kept[i]))])

\* C16: with organize_by = type the target directory of an unrecognized file is <category
\* root>/unorganized followed by the last two segments of the file's parent directory, in
\* their order, without those of the two that are 2 characters or shorter or generic
\* names; never more than two segments are appended
C16_UnrecognizedKeepsLastTwoSegments ==
    (TypePlanCall /\ ~last.plan.is_recognized) =>
        last.plan.target_dir = last_two_segments_directory(cfg, last.plan.media_type, last.arg)

\* a 4-digit token with a value from 1900 to 2029 that no digit precedes or follows
HasYearToken(s) ==
    \E p \in 1..(Len(s) - 3) :
        /\ AllDigits(s, p, p + 3)
        /\ \/ s[p] = "1" /\ s[p + 1] = "9"
           \/ s[p] = "2" /\ s[p + 1] = "0" /\ s[p + 2] \in {"0", "1", "2"}
        /\ (p > 1 => ~IsDigit(s[p - 1]))
        /\ (p + 4 <= Len(s) => ~IsDigit(s[p + 4]))

\* a season/episode token S<digits>E<digits>, in either case
HasSeasonEpisodeToken(s) == \E p \in 1..Len(s) : MatchSE(s, p)

\* C17: for a file name with a 4-digit token from 1900 to 2029 that is not adjacent to
\* other digits and with no season/episode token, _detect_media_type returns (movies, True)
C17_YearTokenMeansRecognizedMovie ==
    (/\ last.op = "detect"
     /\ HasYearToken(PathName(last.arg))
     /\ ~HasSeasonEpisodeToken(PathName(last.arg))) =>
        last.plan.media_type = Str_movies /\ last.plan.is_recognized

\* _detect_media_type was called on a file with a video extension and no season/episode
\* token in its name
VideoWithoutEpisodeCall ==
    /\ last.op = "detect"
    /\ get_file_extension(PathName(last.arg)) \in cfg.video_exts
    /\ ~HasSeasonEpisodeToken(str_lower(PathName(last.arg)))

C18_NewNameGivesSameInfo ==
    (last.op = "rename" /\ last.info.title # << >>) => last.back = last.info

\* the name the claim describes for s from position p on: each run of invalid characters
\* as one underscore, each run of underscores, dots and spaces as one space
RECURSIVE invalid_runs_underscored(_, _)
invalid_runs_underscored(s, p) ==
    IF p > Len(s) THEN << >>
    ELSE IF s[p] \in InvalidChars
    THEN <<"_">> \o invalid_runs_underscored(s, RunEnd(s, p, InvalidChars) + 1)
    ELSE IF s[p] \in {"_", ".", " "}
    THEN <<" ">> \o invalid_runs_underscored(s, RunEnd(s, p, {"_", ".", " "}) + 1)
    ELSE <<s[p]>> \o invalid_runs_underscored(s, p + 1)

\* a name with no bracketed or braced group that starts and ends with a letter or a digit
PlainName(s) ==
    /\ s # << >>
    /\ IsWordChar(s[1]) /\ s[1] # "_"
    /\ IsWordChar(s[Len(s)]) /\ s[Len(s)] # "_"
    /\ \A i \in 1..Len(s) : s[i] \notin {"[", "]", "{", "}"}

\* C20: sanitize_filename turns each run of invalid characters inside a name into a single
\* underscore that stays in the result (Movie<>Name|2020 gives Movie_Name_2020), and each
\* run of underscores, spaces and dots of the input into a single space
C20_InvalidRunsBecomeOneUnderscore ==
    (last.op = "sanitize" /\ PlainName(stem(PathName(last.arg)))) =>
        last.out = invalid_runs_underscored(stem(PathName(last.arg)), 1)

----------------------------------------------------------------------------
(* The files that go with a main file                                      *)

\* a directory of a clip: what can lie beside in/clips/vid.mp4.  Sidecars (a subtitle, an
\* image, a metadata file), a text file of another name, and two more videos whose sizes
\* decide whether they are samples
Sidecars ==
    { Name_vid_srt, Name_vid_nfo,
      <<"v", "i", "d", "-", "p", "o", "s", "t", "e", "r", ".", "j", "p", "g">>, <<"o", "t", "h", "e", "r", ".", "t", "x", "t">> }

SampleVideo == <<"v", "i", "d", "-", "s", "a", "m", "p", "l", "e", ".", "m", "p", "4">>

SecondVideo == <<"v", "i", "d", "_", "c", "d", "2", ".", "m", "k", "v">>

\* sizes in MB: under TinyVideoLimit, between the two limits, above SampleSizeLimit
VideoSizes == {5, 30, 700}

InitAssociated ==
    /\ cfg = CHOOSE c \in Configs : c.organize_by = "type" /\ c.output_directories = NoCategoryDirs
    /\ dirs = {<< >>, RootPath, <<Dir_in>>, <<Dir_in, Dir_clips>>}
    /\ \E side \in SUBSET Sidecars, sample \in VideoSizes \cup {0}, second \in VideoSizes \cup {0} :
          LET names == {Name_vid} \cup side \cup (IF sample = 0 THEN {} ELSE {SampleVideo})
                                 \cup (IF second = 0 THEN {} ELSE {SecondVideo})
          IN  files = [p \in {<<Dir_in, Dir_clips, n>> : n \in names} |->
                          IF PathName(p) = Name_vid THEN Data(1, 700)
                          ELSE IF PathName(p) = SampleVideo THEN Data(2, sample)
                          ELSE IF PathName(p) = SecondVideo THEN Data(3, second)
                          ELSE Data(4, 0)]
    /\ mounts = {}
    /\ srcdirs = {}
    /\ plans = {}
    /\ last = NoCall
    /\ calls = 0
    /\ org = OrgIdle
    /\ hist = {}
    /\ loaded = << >>
    /\ conc = NoConc

\* find_associated_files(f)
FindAssociatedFiles(f) ==
    /\ last.op = "none"
    /\ last' = [NoCall EXCEPT !.op = "associated", !.arg = f, !.preD = dirs, !.preF = files,
                              !.found = find_associated_files(dirs, files, f)]
    /\ UNCHANGED <<dirs, files, cfg, srcdirs, plans, calls, org, mounts, hist, loaded, conc>>

NextAssociated == \E f \in {p \in DOMAIN files : is_media_file(cfg, p)} : FindAssociatedFiles(f)

SpecAssociated == InitAssociated /\ [][NextAssociated]_vars

\* the extensions _should_keep_with_main_file always keeps
AlwaysKeepExts == ImageExts \cup MetadataExts \cup SubtitleExts

\* C19: find_associated_files never returns the main file itself, and never returns a file
\* the sample/junk test classifies as junk, unless the extension of that file is an image,
\* metadata or subtitle extension
C19_NeitherMainNorJunk ==
    last.op = "associated" =>
        \A q \in last.found :
            /\ q # last.arg
            /\ is_sample_or_junk_file(files, q) =>
                  get_file_extension(PathName(q)) \in AlwaysKeepExts

\* the call returned files, and left out a sample beside the main file that carries its name
C19_Witness ==
    /\ last.op = "associated"
    /\ last.found # {}
    /\ \E q \in DOMAIN files \ last.found :
          /\ q # last.arg
          /\ is_sample_or_junk_file(files, q)
          /\ is_associated_name(PathName(last.arg), PathName(q))

----------------------------------------------------------------------------
(* A main file and the files beside it, planned and executed               *)

\* what can lie beside in/clips/vid.mp4: a second video of the release and two subtitles
\* whose names differ in one character, which is invalid in one of them
Name_sub_colon == <<"v", "i", "d", "-", "a", ":", "b", ".", "s", "r", "t">>

Name_sub_under == <<"v", "i", "d", "-", "a", "_", "b", ".", "s", "r", "t">>

Siblings == {SecondVideo, Name_sub_colon, Name_sub_under}

InitSiblings ==
    /\ cfg = CHOOSE c \in Configs : c.organize_by = "type" /\ c.output_directories = NoCategoryDirs
    /\ mounts = {}
    /\ dirs = {<< >>, RootPath, <<Dir_in>>, <<Dir_in, Dir_clips>>}
    /\ \E beside \in SUBSET Siblings :
          files = [p \in {<<Dir_in, Dir_clips, n>> : n \in {Name_vid} \cup beside} |->
                      IF PathName(p) = Name_vid THEN Data(1, 700)
                      ELSE IF PathName(p) = SecondVideo THEN Data(2, 700)
                      ELSE IF PathName(p) = Name_sub_colon THEN Data(3, 0)
                      ELSE Data(4, 0)]
    /\ srcdirs = {}
    /\ plans = {}
    /\ last = NoCall
    /\ calls = 0
    /\ org = OrgIdle
    /\ hist = {}
    /\ loaded = << >>
    /\ conc = NoConc

SpecSiblings == InitSiblings /\ [][Next]_vars

\* the destinations of the moves of a plan
PlanDestinations(plan) == {plan.to} \cup {plan.associated[i].to : i \in 1..Len(plan.associated)}

\* C21: in every plan plan_file_move returns, the destination of the main file and the
\* destinations of the associated moves are pairwise distinct and no associated move has a
\* media file, which the batch plans as a main file, as its source; hence a real execute_move
\* of one plan that returns True leaves the content of every file of the plan on the file
\* system
C21_PlanDestinationsDistinct ==
    /\ (last.op = "plan" /\ ~last.raised) =>
          /\ Cardinality(PlanDestinations(last.plan)) = 1 + Len(last.plan.associated)
          /\ \A i \in 1..Len(last.plan.associated) :
                ~is_media_file(cfg, last.plan.associated[i].from)
    /\ (RealExecute /\ last.ret) => Contents(last.preF) \subseteq Contents(files)

----------------------------------------------------------------------------
(* A cleanup of empty directories while execute_move runs                  *)

\* _cleanup_empty_directories(directories, recursive=True) before its first file system
\* call: g the given directory it is at, cur the directory of the walk, contents what
\* iterdir listed there, pending the entries still to look at, stack the calls of
\* _cleanup_empty_directories_recursive in progress (dir, its position, its entries to go)
cleaner_of(directories_sorted) ==
    [given |-> directories_sorted, g |-> 1, pc |-> "start", cur |-> << >>, contents |-> {},
     pending |-> {}, stack |-> << >>, removed_dirs |-> {}, removed_count |-> 0]

\* a removal that takes the directory with everything beneath it
cleaner_rmtree(st, directory) ==
    IF directory \in st.D /\ directory \notin {<< >>, RootPath}
    THEN [ok |-> TRUE, D |-> {d \in st.D : ~IsUnder(d, directory)},
          F |-> [q \in {p \in DOMAIN st.F : ~IsUnder(p, directory)} |-> st.F[q]]]
    ELSE [ok |-> FALSE, D |-> st.D, F |-> st.F]

\* Path.rmdir as the cleanup calls it: [ok, D, F]
cleaner_rmdir(st, directory) ==
    IF rmdir_ok(st.D, st.F, directory, {})
    THEN [ok |-> TRUE, D |-> st.D \ {directory}, F |-> st.F]
    ELSE [ok |-> FALSE, D |-> st.D, F |-> st.F]

\* the break of the while loop: on to the next given directory
cleaner_break(c) == [c EXCEPT !.g = @ + 1, !.pc = "start", !.stack = << >>, !.pending = {}]

\* rmdir(cur) of the while loop, made to try the directory again when it fails
cleaner_remove_again(st, c) ==
    Bind(cleaner_rmdir(st, c.cur), LAMBDA r :
        IF r.ok
        THEN [st |-> [D |-> r.D, F |-> r.F],
              c |-> [c EXCEPT !.removed_dirs = @ \cup {c.cur}, !.removed_count = @ + 1,
                              !.cur = PathParent(c.cur), !.pc = "exists"]]
        ELSE [st |-> st, c |-> [c EXCEPT !.pc = "exists"]])

\* rmdir(cur) of the while loop: after it the walk goes to the parent, or breaks
cleaner_remove(st, c) ==
    Bind(cleaner_rmdir(st, c.cur), LAMBDA r :
        IF r.ok
        THEN [st |-> [D |-> r.D, F |-> r.F],
              c |-> [c EXCEPT !.removed_dirs = @ \cup {c.cur}, !.removed_count = @ + 1,
                              !.cur = PathParent(c.cur), !.pc = "exists"]]
        ELSE [st |-> st, c |-> cleaner_break(c)])

\* the return of the innermost call of _cleanup_empty_directories_recursive
cleaner_return(c) ==
    [c EXCEPT !.stack = SubSeq(@, 1, Len(@) - 1), !.pc = IF Len(c.stack) = 1 THEN "sub" ELSE "helper"]

\* the next file system call of the innermost _cleanup_empty_directories_recursive; its
\* listing of what remains and its rmdir are one step, as rmdir itself refuses a directory
\* that has entries
cleaner_helper_step(st, c) ==
    Bind(Len(c.stack), LAMBDA n :
    Bind(c.stack[n], LAMBDA top :
        CASE top.pc = "h_list" ->
                 IF top.dir \in c.removed_dirs \/ top.dir \notin st.D
                 THEN [st |-> st, c |-> cleaner_return(c)]
                 ELSE [st |-> st,
                       c |-> [c EXCEPT !.stack[n].pending = iterdir(st.D, st.F, top.dir),
                                       !.stack[n].pc = "h_sub"]]
          [] top.pc = "h_sub" ->
                 IF top.pending = {}
                 THEN Bind(cleaner_rmdir(st, top.dir), LAMBDA r :
                          [st |-> [D |-> r.D, F |-> r.F],
                           c |-> cleaner_return(
                                   IF r.ok THEN [c EXCEPT !.removed_dirs = @ \cup {top.dir},
                                                          !.removed_count = @ + 1]
                                   ELSE c)])
                 ELSE Bind(CHOOSE i \in top.pending : TRUE, LAMBDA item :
                          [st |-> st,
                           c |-> IF item \in st.D /\ item \notin c.removed_dirs
                                 THEN [c EXCEPT !.stack = Append([@ EXCEPT ![n].pending = @ \ {item}],
                                                                 [dir |-> item, pc |-> "h_list", pending |-> {}])]
                                 ELSE [c EXCEPT !.stack[n].pending = @ \ {item}]])
          [] OTHER -> [st |-> st, c |-> c]))

\* the next file system call of _cleanup_empty_directories: [st, c], st = [D, F]
cleaner_step(st, c) ==
    CASE c.pc = "start" ->
             [st |-> st,
              c |-> IF c.g > Len(c.given) THEN [c EXCEPT !.pc = "done"]
                    ELSE [c EXCEPT !.cur = c.given[c.g], !.pc = "exists"]]
      [] c.pc = "exists" ->
             [st |-> st,
              c |-> IF c.cur \notin st.D \/ c.cur \in c.removed_dirs THEN cleaner_break(c)
                    ELSE [c EXCEPT !.pc = "list"]]
      [] c.pc = "list" ->
             [st |-> st,
              c |-> IF c.cur \notin st.D THEN cleaner_break(c)
                    ELSE [c EXCEPT !.contents = iterdir(st.D, st.F, c.cur),
                                   !.pc = IF iterdir(st.D, st.F, c.cur) = {} THEN "rmdir" ELSE "check"]]
      [] c.pc = "rmdir" -> cleaner_remove(st, c)
      [] c.pc = "check" ->
             [st |-> st,
              c |-> IF \E item \in c.contents : is_file(st.F, item) THEN cleaner_break(c)
                    ELSE [c EXCEPT !.pending = c.contents, !.pc = "sub"]]
      [] c.pc = "sub" ->
             IF c.pending = {} THEN cleaner_remove(st, c)
             ELSE Bind(CHOOSE i \in c.pending : TRUE, LAMBDA item :
                      [st |-> st,
                       c |-> IF item \in st.D
                             THEN [c EXCEPT !.pending = @ \ {item}, !.pc = "helper",
                                            !.stack = <<[dir |-> item, pc |-> "h_list", pending |-> {}]>>]
                             ELSE [c EXCEPT !.pending = @ \ {item}]])
      [] c.pc = "helper" -> cleaner_helper_step(st, c)
      [] OTHER -> [st |-> st, c |-> c]

\* a plan made by plan_file_move with a thread in execute_move for it, and a cleanup
\* called with the directory the file is in, the directory it goes to, or both
InitCleanupWhileMoving ==
    /\ cfg \in Configs
    /\ mounts \in {{}, {<<Dir_out>>}}
    /\ files = SourceFiles
    /\ \E f1 \in {p \in DOMAIN SourceFiles : is_media_file(cfg, p)} :
       \E c1 \in {plan_call(cfg, SourceDirs, SourceFiles, f1, "none")} :
       \E o1 \in Orderings(find_associated_files(c1.D, SourceFiles, f1)) :
       \E p1 \in {plan_file_move(cfg, f1, c1.target_dir, o1)} :
       \E given \in (SUBSET {PathParent(f1), c1.target_dir}) \ {{}} :
       \E directories_sorted \in DeepestFirst(given) :
          /\ dirs = c1.D
          /\ plans = {p1}
          /\ conc = [t |-> <<thread_of(p1)>>, attr |-> FALSE, mixed |-> FALSE,
                     D0 |-> c1.D, F0 |-> SourceFiles, cleaner |-> cleaner_of(directories_sorted)]
    /\ srcdirs = {}
    /\ last = NoCall
    /\ calls = 0
    /\ org = OrgIdle
    /\ hist = {}
    /\ loaded = << >>

\* the thread in execute_move makes its next call
MoveStep ==
    /\ conc.t[1].pc # "done"
    /\ \E r \in {conc_step([D |-> dirs, F |-> files, SD |-> srcdirs, attr |-> conc.attr], mounts, conc.t[1])} :
          /\ dirs' = r.st.D
          /\ files' = r.st.F
          /\ srcdirs' = r.st.SD
          /\ conc' = [conc EXCEPT !.t[1] = r.t, !.attr = r.st.attr,
                                  !.mixed = @ \/ conc.cleaner.pc \notin {"start", "done"}]
    /\ UNCHANGED <<cfg, plans, last, calls, org, mounts, hist, loaded>>

\* the cleanup makes its next call
CleanStep ==
    /\ conc.cleaner.pc # "done"
    /\ \E r \in {cleaner_step([D |-> dirs, F |-> files], conc.cleaner)} :
          /\ dirs' = r.st.D
          /\ files' = r.st.F
          /\ conc' = [conc EXCEPT !.cleaner = r.c,
                                  !.mixed = @ \/ (conc.t # << >> /\ conc.t[1].pc # "done"
                                                    /\ conc.t[1] # thread_of(conc.t[1].plan))]
    /\ UNCHANGED <<cfg, srcdirs, plans, last, calls, org, mounts, hist, loaded>>

NextCleanupWhileMoving ==
    \/ MoveStep
    \/ CleanStep

SpecCleanupWhileMoving == InitCleanupWhileMoving /\ [][NextCleanupWhileMoving]_vars

\* execute_move and the cleanup have both returned
MoveAndCleanupDone == conc.t[1].pc = "done" /\ conc.cleaner.pc = "done"

\* C27: when execute_move and a cleanup of empty directories on the same tree have both
\* returned, whatever the order of their file system calls, the content of every file of
\* the plan is at the path it was moved from or at the path it was to be moved to
C27_NoFileLostToCleanup ==
    MoveAndCleanupDone =>
        \A i \in 1..Len(conc.t[1].moves) :
            LET m == conc.t[1].moves[i]
            IN  \E p \in {m.from, m.to} \cap DOMAIN files : files[p].id = conc.F0[m.from].id

\* the cleanup removed the directory the file was to go to between two calls of
\* execute_move, which then failed
C27_Witness ==
    /\ MoveAndCleanupDone /\ conc.mixed
    /\ ~conc.t[1].ret
    /\ conc.t[1].plan.target_dir \in conc.cleaner.removed_dirs

----------------------------------------------------------------------------
(* A cleanup of empty directories, one file system call at a time          *)

\* a directory under the root of the file system
Dir_abs == <<RootPath[1], Dir_lib>>

\* any tree of what the moves leave behind, with or without a directory under the root,
\* and a cleanup called with one or two directories of it, one of which may not exist
InitCleanupSteps ==
    /\ \E X \in SUBSET LeftoverDirs, A \in SUBSET {Dir_abs} :
          /\ \A d \in X : Len(d) > 2 => PathParent(d) \in X
          /\ dirs = {<< >>, RootPath, <<Dir_in>>} \cup X \cup A
    /\ \E Y \in SUBSET LeftoverFiles :
          /\ \A f \in Y : PathParent(f) \in dirs
          /\ files = [f \in Y |-> Data(1, 1)]
    /\ \E directories \in {S \in SUBSET (LeftoverDirs \cup {<<Dir_in>>, Dir_abs}) : Cardinality(S) \in 1..2} :
       \E directories_sorted \in DeepestFirst(directories) :
          conc = [t |-> << >>, attr |-> FALSE, mixed |-> FALSE, D0 |-> dirs, F0 |-> files,
                  cleaner |-> cleaner_of(directories_sorted)]
    /\ cfg = CHOOSE c \in Configs : c.organize_by = "none"
    /\ mounts = {}
    /\ srcdirs = {}
    /\ plans = {}
    /\ last = NoCall
    /\ calls = 0
    /\ org = OrgIdle
    /\ hist = {}
    /\ loaded = << >>

\* the cleanup runs in one thread, which is not kept from making its next call
SpecCleanupSteps == InitCleanupSteps /\ [][CleanStep]_vars /\ WF_vars(CleanStep)

\* C30: _cleanup_empty_directories returns: whatever the tree and the directories it is
\* given, the walk from each of them ends and the call comes to its return
C30_CleanupReturns == <>(conc.cleaner.pc = "done")

\* a cleanup that has returned after walks that went up to the current directory and to
\* the root of the file system and removed everything below them
C30_Witness ==
    /\ conc.t = << >> /\ conc.cleaner.pc = "done"
    /\ {<<Dir_in>>, Dir_abs} \subseteq conc.cleaner.removed_dirs
    /\ {<< >>, RootPath} \subseteq dirs

----------------------------------------------------------------------------
(* The organize command                                                    *)

\* MediaScanner.scan_directory: the media files under directory (no ignore patterns)
scan_directory(c, D, F, directory) ==
    IF ~exists(D, F, directory) THEN {}
    ELSE {p \in DOMAIN F : IsUnder(p, directory) /\ p # directory /\ is_media_file(c, p)}

\* output_to_clean of organize: the default output directory and the configured
\* category directories
output_to_clean(c) ==
    {c.output_directory} \cup {c.output_directories[m] : m \in {k \in MediaTypes : c.output_directories[k] # << >>}}

\* the loop "for output_dir in set(output_to_clean)" from outputs[i]: [D, F, raised]
RECURSIVE cleanup_outputs(_, _, _, _, _)
cleanup_outputs(st, M, outputs, i, listing) ==
    IF i > Len(outputs) \/ st.raised THEN st
    ELSE cleanup_outputs(IF exists(st.D, st.F, outputs[i])
                         THEN cleanup_output_directory(st.D, st.F, M, outputs[i], listing)
                         ELSE st,
                         M, outputs, i + 1, listing)

\* the library with something in the way of the directories the organizer makes
BlockedFiles == SourceFiles @@ (<<Dir_out, Str_movies, Str_unorganized>> :> Data(9, 1))

InitOrganize ==
    /\ cfg \in Configs
    /\ mounts = {}
    /\ \/ dirs = SourceDirs /\ files = SourceFiles
       \/ dirs = SourceDirs \cup {<<Dir_out>>, <<Dir_out, Str_movies>>} /\ files = BlockedFiles
    /\ srcdirs = {}
    /\ plans = {}
    /\ last = NoCall
    /\ calls = 0
    /\ org = OrgIdle
    /\ hist = {}
    /\ loaded = << >>
    /\ conc = NoConc

\* organize up to the planning loop: the scan of the directory argument, whose listing
\* gives the files in the order scanned
OrganizeScan(dry_run, scanned) ==
    /\ org.pc = "idle"
    /\ org' = [OrgIdle EXCEPT !.pc = IF scanned = << >> THEN "done" ELSE "plan",
                              !.dry_run = dry_run, !.files = scanned, !.i = 1,
                              !.D0 = dirs, !.F0 = files, !.directory = org.directory]
    /\ UNCHANGED <<dirs, files, cfg, srcdirs, plans, last, calls, mounts, hist, loaded, conc>>

\* one round of the planning loop; an exception of plan_file_move leaves the command
OrganizePlan(fault) ==
    /\ org.pc = "plan"
    /\ \E f \in {org.files[org.i]} :
       \E pc \in {plan_call(cfg, dirs, files, f, fault)} :
       \E order \in (IF pc.raised THEN {<< >>} ELSE Orderings(find_associated_files(pc.D, files, f))) :
       \E plan \in {IF pc.raised THEN NoPlan ELSE plan_file_move(cfg, f, pc.target_dir, order)} :
          /\ dirs' = pc.D
          /\ org' = IF pc.raised THEN [org EXCEPT !.pc = "aborted"]
                    ELSE [org EXCEPT !.planned = Append(@, f),
                                     !.changed_count = IF plan.changed THEN @ + 1 ELSE @,
                                     !.i = @ + 1,
                                     !.pc = IF org.i = Len(org.files) THEN "cleanup" ELSE "plan"]
    /\ UNCHANGED <<files, cfg, srcdirs, plans, last, calls, mounts, hist, loaded, conc>>

\* from the end of the planning loop to the confirmation prompt: the cleanup of the
\* output directories, then the returns for nothing to organize and for a dry run
OrganizeCleanup(outputs, listing) ==
    /\ org.pc = "cleanup"
    /\ \E r \in {cleanup_outputs([D |-> dirs, F |-> files, raised |-> FALSE], mounts, outputs, 1, listing)} :
          /\ dirs' = r.D
          /\ files' = r.F
          /\ org' = [org EXCEPT !.pc = IF r.raised THEN "aborted"
                                       ELSE IF org.changed_count = 0 \/ org.dry_run THEN "done"
                                       ELSE "confirm"]
    /\ UNCHANGED <<cfg, srcdirs, plans, last, calls, mounts, hist, loaded, conc>>

\* click.confirm
OrganizeConfirm(answer) ==
    /\ org.pc = "confirm"
    /\ org' = [org EXCEPT !.pc = IF answer THEN "exec" ELSE "done", !.i = 1, !.confirmed = answer]
    /\ UNCHANGED <<dirs, files, cfg, srcdirs, plans, last, calls, mounts, hist, loaded, conc>>

\* one round of the execution loop: the file is planned again and, when its plan is
\* changed, moved
OrganizeExecute(plan_fault, failAt, fault) ==
    /\ org.pc = "exec"
    /\ \E f \in {org.files[org.i]} :
       \E pc \in {plan_call(cfg, dirs, files, f, plan_fault)} :
       \E order \in (IF pc.raised THEN {<< >>} ELSE Orderings(find_associated_files(pc.D, files, f))) :
       \E plan \in {IF pc.raised THEN NoPlan ELSE plan_file_move(cfg, f, pc.target_dir, order)} :
       \E r \in {IF plan.changed
                 THEN execute_move(pc.D, files, srcdirs, mounts, plan, FALSE, failAt, fault)
                 ELSE [D |-> pc.D, F |-> files, srcdirs |-> srcdirs, ret |-> FALSE, log |-> << >>]} :
          /\ plan.changed => (IF fault = "none" THEN failAt = 0 ELSE failAt \in 1..Len(PlanMoves(plan)))
          /\ ~plan.changed => (fault = "none" /\ failAt = 0)
          /\ dirs' = r.D
          /\ files' = r.F
          /\ srcdirs' = r.srcdirs
          /\ org' = IF pc.raised THEN [org EXCEPT !.pc = "aborted"]
                    ELSE [org EXCEPT
                            !.handled = Append(@, f),
                            !.attempted = IF plan.changed THEN Append(@, f) ELSE @,
                            !.success_count = IF r.ret THEN @ + 1 ELSE @,
                            !.source_directories =
                                IF r.ret /\ PathParent(f) \in r.D /\ PathParent(f) # PathParent(plan.to)
                                THEN @ \cup {PathParent(f)} ELSE @,
                            !.i = @ + 1,
                            !.pc = IF org.i = Len(org.files) THEN "sources" ELSE "exec"]
    /\ UNCHANGED <<cfg, plans, last, calls, mounts, hist, loaded, conc>>

\* the cleanup of the source directories the moves left
OrganizeCleanupSources(directories_sorted) ==
    /\ org.pc = "sources"
    /\ \E r \in {cleanup_empty_directories([D |-> dirs, removed_dirs |-> {}, listed |-> {}, removed_count |-> 0], files,
                                            directories_sorted, 1, TRUE, {}, {})} :
          /\ dirs' = r.D
          /\ org' = [org EXCEPT !.pc = "final", !.removed = r.removed_dirs]
    /\ UNCHANGED <<files, cfg, srcdirs, plans, last, calls, mounts, hist, loaded, conc>>

\* the final cleanup of the output directories
OrganizeFinalCleanup(outputs, listing) ==
    /\ org.pc = "final"
    /\ \E r \in {cleanup_outputs([D |-> dirs, F |-> files, raised |-> FALSE], mounts, outputs, 1, listing)} :
          /\ dirs' = r.D
          /\ files' = r.F
          /\ org' = [org EXCEPT !.pc = IF r.raised THEN "aborted" ELSE "done", !.final = ~r.raised]
    /\ UNCHANGED <<cfg, srcdirs, plans, last, calls, mounts, hist, loaded, conc>>

NextOrganize ==
    \/ \E dry_run \in BOOLEAN, scanned \in Orderings(scan_directory(cfg, dirs, files, org.directory)) :
          OrganizeScan(dry_run, scanned)
    \/ \E fault \in PlanFaults : OrganizePlan(fault)
    \/ \E outputs \in Orderings(output_to_clean(cfg)), listing \in Listings : OrganizeCleanup(outputs, listing)
    \/ \E answer \in BOOLEAN : OrganizeConfirm(answer)
    \/ \E plan_fault \in PlanFaults, failAt \in 0..3, fault \in Faults :
          OrganizeExecute(plan_fault, failAt, fault)
    \/ \E directories_sorted \in DeepestFirst(org.source_directories) :
          OrganizeCleanupSources(directories_sorted)
    \/ \E outputs \in Orderings(output_to_clean(cfg)), listing \in Listings :
          OrganizeFinalCleanup(outputs, listing)

SpecOrganize == InitOrganize /\ [][NextOrganize]_vars

\* a library whose directory clips is organized, or the directory a1x above it: beside
\* clips there may be a directory b2x, empty or with a file, and beside a1x a file
InitSubtree ==
    /\ cfg \in {c \in Configs : c.organize_by = "type"}
    /\ mounts = {}
    /\ \E beside \in SUBSET {<<Dir_in, Dir_a1x, Dir_b2x>>, <<Dir_in, Dir_a1x, Dir_b2x, Name_vid_nfo>>,
                             <<Dir_in, Name_vid_nfo>>} :
          /\ <<Dir_in, Dir_a1x, Dir_b2x, Name_vid_nfo>> \in beside => <<Dir_in, Dir_a1x, Dir_b2x>> \in beside
          /\ dirs = {<< >>, RootPath, <<Dir_in>>, <<Dir_in, Dir_a1x>>, <<Dir_in, Dir_a1x, Dir_clips>>}
                        \cup (beside \cap {<<Dir_in, Dir_a1x, Dir_b2x>>})
          /\ files = [p \in {<<Dir_in, Dir_a1x, Dir_clips, Name_vid>>}
                              \cup (beside \ {<<Dir_in, Dir_a1x, Dir_b2x>>}) |->
                        IF p = <<Dir_in, Dir_a1x, Dir_clips, Name_vid>> THEN Data(1, 700) ELSE Data(2, 0)]
    /\ srcdirs = {}
    /\ plans = {}
    /\ last = NoCall
    /\ calls = 0
    /\ org \in {[OrgIdle EXCEPT !.directory = d] : d \in {<<Dir_in, Dir_a1x, Dir_clips>>, <<Dir_in, Dir_a1x>>}}
    /\ hist = {}
    /\ loaded = << >>
    /\ conc = NoConc

SpecSubtree == InitSubtree /\ [][NextOrganize]_vars

C7_DryRunLeavesFileSystem ==
    (org.pc # "idle" /\ org.dry_run) => (dirs = org.D0 /\ files = org.F0)

\* the scanned files the execution loop has handled, each changed one moved once
AllHandledOnce ==
    /\ org.handled = org.files
    /\ \A i, j \in 1..Len(org.attempted) : i # j => org.attempted[i] # org.attempted[j]

\* the command has ended: by a return ("done") or by an exception that left it
\* ("aborted"); no step follows
Ended == org.pc \in {"done", "aborted"}

\* C9: the organize batch does not end before every scanned file was planned and, once
\* the prompt was answered yes, before every scanned file was handled by the execution
\* loop, its move attempted once when its plan is changed, and the final cleanup made
C9_BatchRunsToCompletion ==
    Ended =>
        /\ org.planned = org.files
        /\ org.confirmed => (org.final /\ AllHandledOnce)

----------------------------------------------------------------------------
(* Duplicates: which file of a group is kept, and the removal               *)

\* the values of duplicate_detection.keep_criteria, and one the code does not know
KeepCriteria == {"highest_quality", "smallest", "oldest", "newest", "first"}

\* the position in file_info of the entry sorted(key, reverse) puts first: the sort is
\* stable, so among equal keys the one that came first
first_sorted(file_info, key(_), reverse) ==
    CHOOSE i \in 1..Len(file_info) :
        \A j \in 1..Len(file_info) :
            IF reverse THEN key(file_info[j]) < key(file_info[i]) \/ (key(file_info[j]) = key(file_info[i]) /\ i <= j)
            ELSE key(file_info[i]) < key(file_info[j]) \/ (key(file_info[j]) = key(file_info[i]) /\ i <= j)

\* DuplicateFinder.select_file_to_keep; F the files, mtime their modification times, gone
\* the files whose stat raises; None is << >>
select_file_to_keep(F, mtime, gone, keep_criteria, file_paths) ==
    IF file_paths = << >> THEN << >>
    ELSE IF Len(file_paths) = 1 THEN file_paths[1]
    ELSE LET file_info == SelectSeq(file_paths, LAMBDA p : p \in DOMAIN F /\ p \notin gone)
             size(p) == F[p].size
             time(p) == mtime[p]
         IN  IF file_info = << >> THEN file_paths[1]
             ELSE CASE keep_criteria = "highest_quality" -> file_info[first_sorted(file_info, size, TRUE)]
                    [] keep_criteria = "smallest" -> file_info[first_sorted(file_info, size, FALSE)]
                    [] keep_criteria = "oldest" -> file_info[first_sorted(file_info, time, FALSE)]
                    [] keep_criteria = "newest" -> file_info[first_sorted(file_info, time, TRUE)]
                    [] OTHER -> file_info[1]

\* a remove list that is the whole group
remove_files_all(file_paths, keep_file) == file_paths

\* remove_files of organize_duplicates: the files of the group other than the kept one
remove_files(file_paths, keep_file) == SelectSeq(file_paths, LAMBDA f : f # keep_file)

\* DuplicateFinder.organize_duplicates on the groups (lists of paths, one for each hash):
\* for each group of two or more its kept file, remove list and count; paths is the group
organize_duplicates(F, mtime, gone, keep_criteria, duplicates) ==
    { [keep |-> select_file_to_keep(F, mtime, gone, keep_criteria, file_paths),
       remove |-> remove_files(file_paths, select_file_to_keep(F, mtime, gone, keep_criteria, file_paths)),
       count |-> Len(file_paths),
       paths |-> file_paths] : file_paths \in {g \in duplicates : Len(g) >= 2} }

\* FileHasher.find_hash_duplicates on the scanned files in the order their hashes came
\* in: the lists of files of one content, of those that have more than one file
find_hash_duplicates(F, hashed) ==
    { files_of \in { SelectSeq(hashed, LAMBDA p : F[p].id = h) : h \in {F[hashed[i]].id : i \in 1..Len(hashed)} } :
          Len(files_of) > 1 }

\* the loop "for file_path in info['remove']" of remove_duplicates from remove[i]; locked
\* the files whose unlink raises
RECURSIVE remove_list(_, _, _, _)
remove_list(F, remove, i, locked) ==
    IF i > Len(remove) THEN F
    ELSE remove_list(IF remove[i] \in DOMAIN F /\ remove[i] \notin locked THEN RemoveFile(F, remove[i]) ELSE F,
                     remove, i + 1, locked)

\* the loop "for file_hash, info in organized.items()" of remove_duplicates
RECURSIVE remove_organized(_, _, _)
remove_organized(F, organized, locked) ==
    IF organized = {} THEN F
    ELSE Bind(CHOOSE info \in organized : TRUE, LAMBDA info :
             remove_organized(remove_list(F, info.remove, 1, locked), organized \ {info}, locked))

\* bound of the model: the remove-duplicates commands run on one library
MaxRemovals == 2

\* the paths of a library with copies, and what a file of a content weighs
CopyPaths ==
    { <<Dir_in, Name_Up>>, <<Dir_in, Name_UpHD>>, <<Dir_in, Dir_a1x, Name_Up>>, <<Dir_in, Dir_a1x, Name_vid>> }

\* modification times: the files in the order of their names, and the other way round
CopyTimes ==
    { (<<Dir_in, Name_Up>> :> 1) @@ (<<Dir_in, Name_UpHD>> :> 2) @@ (<<Dir_in, Dir_a1x, Name_Up>> :> 3)
          @@ (<<Dir_in, Dir_a1x, Name_vid>> :> 3),
      (<<Dir_in, Name_Up>> :> 3) @@ (<<Dir_in, Name_UpHD>> :> 2) @@ (<<Dir_in, Dir_a1x, Name_Up>> :> 1)
          @@ (<<Dir_in, Dir_a1x, Name_vid>> :> 1) }

\* what goes wrong in a run: nothing, the stat of a file raises, the unlink of a file raises
CopyFaults ==
    { [gone |-> {}, locked |-> {}],
      [gone |-> {<<Dir_in, Name_Up>>}, locked |-> {}],
      [gone |-> {}, locked |-> {<<Dir_in, Dir_a1x, Name_Up>>}] }

\* a library in which each of the paths is absent or holds one of two contents (the last
\* of the paths the second content only)
InitDuplicates ==
    /\ cfg = CHOOSE c \in Configs : c.organize_by = "none"
    /\ mounts = {}
    /\ dirs = {<< >>, RootPath, <<Dir_in>>, <<Dir_in, Dir_a1x>>}
    /\ \E content \in {c \in [CopyPaths -> {0, 1, 2}] : c[<<Dir_in, Dir_a1x, Name_vid>>] # 1} :
          files = [p \in {q \in CopyPaths : content[q] # 0} |-> Data(content[p], 700 * content[p])]
    /\ srcdirs = {}
    /\ plans = {}
    /\ last = NoCall
    /\ calls = 0
    /\ org = OrgIdle
    /\ hist = {}
    /\ loaded = << >>
    /\ conc = NoConc

\* the command remove-duplicates on directory in, from the scan to the end of the removal
\* loop; hashed the scanned files in the order their hashes came in
RemoveDuplicates(dry_run, keep_criteria, hashed, mtime, gone, locked) ==
    /\ calls < MaxRemovals
    /\ \E duplicates \in {find_hash_duplicates(files, hashed)} :
       \E organized \in {organize_duplicates(files, mtime, gone, keep_criteria, duplicates)} :
          /\ files' = IF dry_run THEN files ELSE remove_organized(files, organized, locked)
          /\ last' = [NoCall EXCEPT !.op = "remove_duplicates", !.dry = dry_run,
                                    !.organized = organized, !.busy = locked,
                                    !.preD = dirs, !.preF = files]
    /\ calls' = calls + 1
    /\ UNCHANGED <<dirs, cfg, srcdirs, plans, org, mounts, hist, loaded, conc>>

NextDuplicates ==
    \E dry_run \in BOOLEAN, keep_criteria \in KeepCriteria,
       hashed \in Orderings(scan_directory(cfg, dirs, files, <<Dir_in>>)),
       mtime \in CopyTimes, fault \in CopyFaults :
        RemoveDuplicates(dry_run, keep_criteria, hashed, mtime, fault.gone, fault.locked)

SpecDuplicates == InitDuplicates /\ [][NextDuplicates]_vars

\* the paths of a list
PathsOf(list) == {list[i] : i \in 1..Len(list)}

\* C29: in what organize_duplicates returns for a group, the kept file is a file of the
\* group, is not in the remove list, and together with the remove list makes up the
\* group; after the removal loop of remove_duplicates the kept file of every group is
\* where it was, with the content it had
C29_KeptFileSurvives ==
    last.op = "remove_duplicates" =>
        \A info \in last.organized :
            /\ info.keep \in PathsOf(info.paths)
            /\ info.keep \notin PathsOf(info.remove)
            /\ PathsOf(info.remove) \cup {info.keep} = PathsOf(info.paths)
            /\ info.keep \in DOMAIN files
            /\ files[info.keep] = last.preF[info.keep]

\* a removal that deleted two copies of a group of three and left the kept one
C29_Witness ==
    /\ last.op = "remove_duplicates" /\ ~last.dry
    /\ \E info \in last.organized :
          /\ Len(info.remove) = 2
          /\ PathsOf(info.remove) \cap DOMAIN files = {}
          /\ info.keep \in DOMAIN files

============================================================================
